---- MODULE Spec2Model ----
(***************************************************************************)
(* Model of ranger_bot: the orchestration gates of src/main.py and the     *)
(* order reconciler and averaging/pyramiding engine of                     *)
(* src/modules/averaging_strategy.py.                                      *)
(*                                                                         *)
(* The specifications share the module's variables; each one moves its    *)
(* own group of variables and leaves the other groups at their initial     *)
(* values:                                                                 *)
(*   SpecGate   - runner / run_module: identity locks and the semaphore    *)
(*   SpecGateLive - SpecGate with the scheduling of asyncio                *)
(*   SpecSession - the try / except / finally of one run_module            *)
(*   SpecStartup - the combined startup message of the engine module       *)
(*   SpecPoll   - check_executed_limit_orders and the processed-fill cache *)
(*   SpecReconcile - one venue response through both reconciler functions  *)
(*   SpecWindow - one poll of check_executed_limit_orders from any cache   *)
(*   SpecEngine - the cycle loop of trade_averaging_strategy               *)
(*   SpecShutdown - the cycle loop of one account and the signal handler   *)
(*   SpecBuy    - the cycle loop of one account, every fill amount         *)
(*   SpecProfit - the cycle loop of one account, executions above the limit *)
(***************************************************************************)
EXTENDS Integers, Sequences, FiniteSets, TLC

VARIABLES
    \* ---- orchestration (src/main.py) ----
    THREADS,            \* settings.THREADS, read by runner
    accounts,           \* number of distinct sol_address values in all_modules
    threads,            \* width computed by runner (value of the semaphore)
    sem_value,          \* free slots of sem (asyncio.Semaphore._value)
    address_locks,      \* address_locks[a]: TRUE when the lock of address a is held
    session,            \* position of each run_module task
    run_state,          \* "running", "ended" or "aborted" (runner / asyncio.run)
    \* ---- reconciler state kept on the client (check_executed_limit_orders) ----
    clock,                      \* time.time(), in seconds
    has_cache,                  \* hasattr(client, '_previous_filled_order_ids')
    previous_filled_order_ids,  \* client._previous_filled_order_ids
    orders_cache_initialized,   \* client._orders_cache_initialized
    executed_orders,            \* list returned by the last check_executed_limit_orders
    poll_raised,                \* the last poll ended in its except branch
    ever_cached,                \* history: every identifier ever put into the cache
    polls,                      \* number of polls made in SpecPoll
    first_snapshot,             \* history: identifiers the first poll put into the cache
    \* ---- venue and process-wide state seen by the engine ----
    venue,                  \* limit orders the venue holds, by identifier
    shutdown_requested,     \* main.shutdown_requested
    \* ---- trade_averaging_strategy: settings read at start, locals, client ----
    trading_enabled,        \* settings.ENABLE_TRADING
    aggr,                   \* settings.AGGR
    pc,                     \* position of the engine in its cycle
    iteration_count,
    orphaned_logged,
    current_tp_orders,
    current_price,
    usdc_balance,
    token_balance,
    position_size,
    min_tp_price,           \* <<>> is None, <<p>> is the price p
    max_tp_price,
    fill_index,             \* index of the executed order the for loop is at
    tp_orders,              \* client.tp_orders, the ledger
    \* ---- history of the engine, read by the properties only ----
    runs,                   \* starts of trade_averaging_strategy so far
    cycles,                 \* cycles started so far
    run_cycles,             \* cycles started in the current run
    orphan_logs,            \* orphaned-token messages logged since the session began
    run_orphan_logs,        \* orphaned-token messages logged in the current run
    cycle_report,           \* result of the cycle's latest get_tp_orders_from_exchange
    cycle_fills,            \* identifiers check_executed_limit_orders returned this cycle
    cycle_checked,          \* TRUE once this cycle has called check_executed_limit_orders
    cycle_profits,          \* identifiers whose profit message was sent this cycle
    decided_orders,         \* the list min_tp_price and max_tp_price were derived from
    cycle_buys,             \* market buys attempted this cycle, in order
    cycle_tps,              \* limit orders requested this cycle, in order
    signals,                \* SIGINT / SIGTERM deliveries handled so far
    \* ---- one account session: run_module (main.py 53-108) ----
    at,                     \* position of the session inside run_module
    browser,                \* TRUE once Browser(...) has been constructed
    sol_wallet,             \* TRUE once SolWallet(...) has been constructed
    module_data,            \* "dict", or "None" after the DataBaseError handler
    in_flight,              \* the exception propagating through the finally block
    reports,                \* what the store holds as reports of the account
    closed,                 \* transport sessions closed so far
    removed,                \* TRUE once db.remove_module has returned
    sent,                   \* TRUE once TgReport().send_log has returned
    exit_path,              \* how the try block was left
    cleanup_failed,         \* TRUE once a call of the finally block has raised
    \* ---- the combined startup message (averaging_strategy.py 40-82, 853-870) ----
    startup_balances,       \* _startup_balances: labels that have registered
    startup_lock,           \* _startup_lock: the sender tasks holding it, {} when free
    startup_message_sent,   \* _startup_message_sent
    sender,                 \* position of every spawned send_combined_startup_message
    registrations,          \* first-cycle registrations so far
    send_calls,             \* calls of TgReport().send_log for the combined message
    \* ---- one venue response put through both reconciler functions ----
    exchange_orders,        \* what get_open_limit_orders returned
    open_list,              \* result of get_tp_orders_from_exchange
    fill_list,              \* result of check_executed_limit_orders
    reconciled              \* TRUE once both results belong to exchange_orders

gateVars == <<THREADS, accounts, threads, sem_value, address_locks, session, run_state>>

pollVars == <<clock, has_cache, previous_filled_order_ids, orders_cache_initialized,
              executed_orders, poll_raised, ever_cached, polls, first_snapshot>>

envVars == <<venue, shutdown_requested>>

localVars == <<trading_enabled, aggr, pc, iteration_count, orphaned_logged,
               current_tp_orders, current_price, usdc_balance, token_balance,
               position_size, min_tp_price, max_tp_price, fill_index, tp_orders>>

historyVars == <<runs, cycles, run_cycles, orphan_logs, run_orphan_logs, cycle_report,
                 cycle_fills, cycle_checked, cycle_profits, decided_orders, cycle_buys, cycle_tps,
                 signals>>

engineVars == <<envVars, localVars, historyVars>>

sessionVars == <<at, browser, sol_wallet, module_data, in_flight, reports, closed,
                 removed, sent, exit_path, cleanup_failed>>

startupVars == <<startup_balances, startup_lock, startup_message_sent, sender,
                 registrations, send_calls>>

reconcileVars == <<exchange_orders, open_list, fill_list, reconciled>>

vars == <<gateVars, pollVars, engineVars, sessionVars, startupVars, reconcileVars>>

\* The groups a specification does not move stay at these values.
GateIdle ==
    /\ THREADS = 0 /\ accounts = 1 /\ threads = 1 /\ sem_value = 1
    /\ address_locks = <<>> /\ session = <<>> /\ run_state = "idle"

PollIdle ==
    /\ clock = 0 /\ has_cache = FALSE /\ previous_filled_order_ids = {}
    /\ orders_cache_initialized = FALSE /\ executed_orders = <<>>
    /\ poll_raised = FALSE /\ ever_cached = {} /\ polls = 0 /\ first_snapshot = {}

ReconcileIdle ==
    /\ exchange_orders = <<>> /\ open_list = <<>> /\ fill_list = <<>>
    /\ reconciled = FALSE

StartupIdle ==
    /\ startup_balances = {} /\ startup_lock = {} /\ startup_message_sent = FALSE
    /\ sender = <<>> /\ registrations = 0 /\ send_calls = 0

SessionIdle ==
    /\ at = "idle" /\ browser = FALSE /\ sol_wallet = FALSE /\ module_data = "dict"
    /\ in_flight = "none" /\ reports = "none" /\ closed = {} /\ removed = FALSE
    /\ sent = FALSE /\ exit_path = "none" /\ cleanup_failed = FALSE

EngineIdle ==
    /\ venue = <<>> /\ shutdown_requested = FALSE
    /\ trading_enabled = TRUE /\ aggr = 0 /\ pc = "idle" /\ iteration_count = 0
    /\ orphaned_logged = FALSE /\ current_tp_orders = <<>> /\ current_price = 0
    /\ usdc_balance = 0 /\ token_balance = 0 /\ position_size = 0
    /\ min_tp_price = <<>> /\ max_tp_price = <<>> /\ fill_index = 0 /\ tp_orders = <<>>
    /\ runs = 0 /\ cycles = 0 /\ run_cycles = 0 /\ orphan_logs = 0
    /\ run_orphan_logs = 0 /\ cycle_report = <<>> /\ cycle_fills = {}
    /\ cycle_checked = FALSE
    /\ cycle_profits = {} /\ decided_orders = <<>> /\ cycle_buys = <<>>
    /\ cycle_tps = <<>> /\ signals = 0

(***************************************************************************)
(* Orchestration: runner and run_module                                    *)
(***************************************************************************)

\* Number of module_data entries returned by db.get_all_modules().
MaxModules == 5

\* Largest configured settings.THREADS explored (together with 0 and -1).
MaxThreads == 3

Modules == 1..MaxModules

\* module_data["sol_address"] of module m when the queue holds k distinct accounts
sol_address(m, k) == ((m - 1) % k) + 1

Min(a, b) == IF a <= b THEN a ELSE b

\* main.py 116: len(set(module_data['sol_address'] ...))
unique_accounts(k) == Cardinality({sol_address(m, k) : m \in Modules})

\* main.py 119-125: 0 or negative means one slot per distinct account
WidthMutUncapped(limit, unique) == IF limit <= 0 THEN unique ELSE limit
WidthMutAutoAll(limit, unique) == IF limit <= 0 THEN MaxModules ELSE Min(limit, unique)
Width(limit, unique) == IF limit <= 0 THEN unique ELSE Min(limit, unique)

\* main.py 54: the lock a session takes is the one of its sol_address
LockKeyMutPerModule(m) == m
LockKey(m) == sol_address(m, accounts)

\* main.py 54: async with address_locks[...] enters only when the lock is free
LockFreeMutAlways(m) == TRUE
LockFree(m) == ~address_locks[LockKey(m)]

\* main.py 55: async with sem enters only when a slot is free
SemFreeMutAlways == TRUE
SemFree == sem_value > 0

\* main.py 54: leaving "async with address_locks[...]" releases the lock, on return
\* and on every exception
ReleasedMutKept(locks, m) == locks
Released(locks, m) == [locks EXCEPT ![LockKey(m)] = FALSE]

InitGate ==
    /\ THREADS \in -1..MaxThreads
    /\ accounts \in 1..MaxModules
    /\ threads = Width(THREADS, unique_accounts(accounts))
    /\ sem_value = threads
    /\ address_locks = [a \in Modules |-> FALSE]
    /\ session = [m \in Modules |-> "pending"]
    /\ run_state = "running"
    /\ PollIdle
    /\ EngineIdle
    /\ SessionIdle
    /\ StartupIdle
    /\ ReconcileIdle

\* main.py 54: a pending session acquires the lock of its address
AcquireLock(m) ==
    /\ run_state = "running"
    /\ session[m] = "pending"
    /\ LockFree(m)
    /\ address_locks' = [address_locks EXCEPT ![LockKey(m)] = TRUE]
    /\ session' = [session EXCEPT ![m] = "wait_sem"]
    /\ UNCHANGED <<THREADS, accounts, threads, sem_value, run_state>>
    /\ UNCHANGED <<pollVars, engineVars, sessionVars, startupVars, reconcileVars>>

WaitsForSlotMutLockless(m) == session[m] \in {"pending", "wait_sem"}
\* main.py 54-55: "async with sem" is nested inside "async with address_locks[...]", so a
\* session reaches the semaphore only while it holds its lock
WaitsForSlot(m) == session[m] = "wait_sem"

\* main.py 55: a session holding its lock acquires a slot and enters its body
AcquireSem(m) ==
    /\ run_state = "running"
    /\ WaitsForSlot(m)
    /\ SemFree
    /\ sem_value' = sem_value - 1
    /\ session' = [session EXCEPT ![m] = "body"]
    /\ UNCHANGED <<THREADS, accounts, threads, address_locks, run_state>>
    /\ UNCHANGED <<pollVars, engineVars, sessionVars, startupVars, reconcileVars>>

\* main.py 56-108: the body ends (engine returned, or an exception was contained by
\* "except Exception" and neither the handler nor the finally block raised); both
\* context managers release on the way out
LeaveBody(m) ==
    /\ run_state = "running"
    /\ session[m] = "body"
    /\ sem_value' = sem_value + 1
    /\ address_locks' = Released(address_locks, m)
    /\ session' = [session EXCEPT ![m] = "done"]
    /\ UNCHANGED <<THREADS, accounts, threads, run_state>>
    /\ UNCHANGED <<pollVars, engineVars, sessionVars, startupVars, reconcileVars>>

\* main.py 76-78, 133-140: DataBaseError is re-raised, leaves both context managers
\* and makes gather raise inside runner
RaiseDataBaseError(m) ==
    /\ run_state = "running"
    /\ session[m] = "body"
    /\ sem_value' = sem_value + 1
    /\ address_locks' = Released(address_locks, m)
    /\ session' = [session EXCEPT ![m] = "dberror"]
    /\ run_state' = "aborted"
    /\ UNCHANGED <<THREADS, accounts, threads>>
    /\ UNCHANGED <<pollVars, engineVars, sessionVars, startupVars, reconcileVars>>

\* main.py 80-108, 133-140: what "except Exception" caught is contained, but the handler
\* awaits db.append_report (83, 86) and the finally block awaits db.remove_module (98),
\* db.get_account_reports (101) and TgReport().send_log (104) outside any try: an
\* exception other than DataBaseError raised by one of these calls leaves both context
\* managers and makes gather raise inside runner, which has no handler for it
RaiseException(m) ==
    /\ run_state = "running"
    /\ session[m] = "body"
    /\ sem_value' = sem_value + 1
    /\ address_locks' = Released(address_locks, m)
    /\ session' = [session EXCEPT ![m] = "failed"]
    /\ run_state' = "aborted"
    /\ UNCHANGED <<THREADS, accounts, threads>>
    /\ UNCHANGED <<pollVars, engineVars, sessionVars, startupVars, reconcileVars>>

\* main.py 167: asyncio.run cancels the tasks still alive once runner has raised; a
\* cancelled task unwinds through the context managers it had entered
CancelSession(m) ==
    /\ run_state = "aborted"
    /\ session[m] \in {"pending", "wait_sem", "body"}
    /\ sem_value' = IF session[m] = "body" THEN sem_value + 1 ELSE sem_value
    /\ address_locks' = IF session[m] \in {"wait_sem", "body"}
                        THEN Released(address_locks, m)
                        ELSE address_locks
    /\ session' = [session EXCEPT ![m] = "cancelled"]
    /\ UNCHANGED <<THREADS, accounts, threads, run_state>>
    /\ UNCHANGED <<pollVars, engineVars, sessionVars, startupVars, reconcileVars>>

\* main.py 133-143: gather returns when every session has finished
RunnerEnds ==
    /\ run_state = "running"
    /\ \A m \in Modules : session[m] = "done"
    /\ run_state' = "ended"
    /\ UNCHANGED <<THREADS, accounts, threads, sem_value, address_locks, session>>
    /\ UNCHANGED <<pollVars, engineVars, sessionVars, startupVars, reconcileVars>>

NextGate ==
    \/ \E m \in Modules : AcquireLock(m)
    \/ \E m \in Modules : AcquireSem(m)
    \/ \E m \in Modules : LeaveBody(m)
    \/ \E m \in Modules : RaiseDataBaseError(m)
    \/ \E m \in Modules : RaiseException(m)
    \/ \E m \in Modules : CancelSession(m)
    \/ RunnerEnds

SpecGate == InitGate /\ [][NextGate]_vars

\* asyncio.Lock and asyncio.Semaphore wake their waiters in turn, so a session that
\* can acquire does so; every session that is inside its body leaves it, one way or
\* another; asyncio.run cancels every task that is left when runner has raised.
GateFairness ==
    \A m \in Modules :
        /\ WF_vars(AcquireLock(m))
        /\ WF_vars(AcquireSem(m))
        /\ WF_vars(LeaveBody(m) \/ RaiseDataBaseError(m) \/ RaiseException(m))
        /\ WF_vars(CancelSession(m))

SpecGateLive == InitGate /\ [][NextGate]_vars /\ GateFairness

InBody == {m \in Modules : session[m] = "body"}

\* C38 as stated: if every session that enters its body eventually leaves it, every
\* launched session eventually enters its body.
C38_EverySessionEntersBody ==
    \A m \in Modules : <>(session[m] = "body")

\* C38 amended: ... every launched session eventually enters its body, unless the run
\* is aborted first (a session left its body with an exception that run_module does
\* not contain, and the sessions still waiting are cancelled).
C38_EntersBodyOrRunAborted ==
    \A m \in Modules : <>(session[m] = "body" \/ run_state = "aborted")

\* C38 happens: a session is inside its body after the session that held the lock of
\* the same address has left, while the semaphore has a single slot.
C38_Witness ==
    /\ run_state = "running"
    /\ threads = 1
    /\ \E m, n \in Modules :
        /\ m # n /\ LockKey(m) = LockKey(n)
        /\ session[n] = "done" /\ session[m] = "body"

\* C1: the number of sessions inside their body never exceeds the concurrency width;
\* with limit 2 and 5 distinct accounts at most 2 sessions are inside at any time.
C1_BodyWithinWidth ==
    /\ Cardinality(InBody) <= threads
    /\ (THREADS = 2 /\ accounts = 5) => Cardinality(InBody) <= 2

\* limit 2, 5 distinct accounts, both slots taken and a third session kept out
C1_Witness ==
    /\ THREADS = 2
    /\ accounts = 5
    /\ Cardinality(InBody) = 2
    /\ \E m \in Modules : session[m] = "wait_sem"

\* C2: two sessions with the same sol_address are never inside their body together.
C2_SameAddressExclusive ==
    \A m, n \in InBody : m # n => sol_address(m, accounts) # sol_address(n, accounts)

\* two modules of one address, one inside its body, the other waiting for the lock,
\* while a slot of the semaphore is still free
C2_Witness ==
    \E m, n \in Modules :
        /\ m # n
        /\ sol_address(m, accounts) = sol_address(n, accounts)
        /\ session[m] = "body"
        /\ session[n] = "pending"
        /\ sem_value > 0

HoldsLock == {m \in Modules : session[m] \in {"wait_sem", "body"}}

\* C25: the identity lock is taken before the semaphore: slots are held by the sessions
\* inside their body and by no other, each of these holds its lock, and a lock is held
\* exactly while a session of its address is past the lock and has not left, so both
\* gates are free again after every exit.
C25_LockBeforeSlot ==
    /\ sem_value = threads - Cardinality(InBody)
    /\ \A m \in InBody : address_locks[LockKey(m)]
    /\ \A a \in DOMAIN address_locks :
           address_locks[a] <=> \E m \in HoldsLock : LockKey(m) = a
    /\ \A m, n \in HoldsLock : m # n => LockKey(m) # LockKey(n)

\* one session is inside its body, a second of the same address waits for the lock
\* without a slot, a third has left and returned its slot and lock
C25_Witness ==
    \E m, n, k \in Modules :
        /\ session[m] = "body" /\ session[n] = "pending" /\ session[k] = "done"
        /\ LockKey(m) = LockKey(n)
        /\ LockKey(k) # LockKey(m)
        /\ ~address_locks[LockKey(k)]
        /\ sem_value = threads - 1
        /\ threads >= 2

DistinctAddresses == {sol_address(m, accounts) : m \in Modules}

\* C23: the width runner computes is the number of distinct sol_address values when the
\* configured limit is 0 or negative, the smaller of the limit and that number when the
\* limit is positive, and never more than that number.
C23_WidthFromLimit ==
    LET distinct == Cardinality(DistinctAddresses)
    IN  /\ THREADS <= 0 => threads = distinct
        /\ THREADS > 0 =>
               /\ threads <= THREADS /\ threads <= distinct
               /\ threads = THREADS \/ threads = distinct
        /\ threads <= distinct
        /\ sem_value <= threads

\* a limit of 3 over 2 distinct accounts: the width is 2 and both slots are taken
C23_Witness ==
    /\ THREADS = 3
    /\ Cardinality(DistinctAddresses) = 2
    /\ threads = 2
    /\ Cardinality(InBody) = 2

\* C15: runner returns 'Ended' only after every session has finished, and a session
\* that failed with anything but the infrastructure-fatal class neither makes runner
\* fail nor stops another session.
C15_SessionFailureIsolated ==
    /\ run_state = "ended" => \A m \in Modules : session[m] = "done"
    /\ (\A m \in Modules : session[m] # "dberror") =>
           /\ run_state # "aborted"
           /\ \A m \in Modules : session[m] # "cancelled"

\* C16: a DataBaseError of a session ends the whole run, and nothing else does: a run
\* that was aborted has a session that raised DataBaseError.
C16_OnlyDataBaseErrorAborts ==
    /\ (\E m \in Modules : session[m] = "dberror") => run_state = "aborted"
    /\ run_state = "aborted" => \E m \in Modules : session[m] = "dberror"

(***************************************************************************)
(* One account session: the try / except / finally of run_module           *)
(***************************************************************************)

ExceptionKinds == {"DataBaseError", "Exception"}
ReportStates == {"none", "events", "no_actions"}

\* main.py 76, 80: the handler an exception raised inside the try block reaches
HandlerFor(kind) == IF kind = "DataBaseError" THEN "except_db" ELSE "except"

\* db.append_report adds a report to those of the account
Recorded(held) == IF held = "none" THEN "events" ELSE held

\* main.py 103: if reports and "No actions" not in reports
ReportDue(held) == held # "none" /\ held # "no_actions"

\* main.py 89: if browser and sol_wallet / 92: elif browser
CloseOutcomes ==
    IF browser /\ sol_wallet THEN {{"browser", "wallet"}, {"browser"}, {}}
    ELSE IF browser THEN {{"browser"}, {}}
    ELSE {{}}

Opened == (IF browser THEN {"browser"} ELSE {}) \cup (IF sol_wallet THEN {"wallet"} ELSE {})

\* main.py 56-57: the session has entered both context managers; the store may hold
\* reports of the account
InitSession ==
    /\ GateIdle
    /\ PollIdle
    /\ EngineIdle
    /\ StartupIdle
    /\ ReconcileIdle
    /\ at = "try"
    /\ browser = FALSE /\ sol_wallet = FALSE
    /\ module_data = "dict"
    /\ in_flight = "none"
    /\ reports \in ReportStates
    /\ closed = {} /\ removed = FALSE /\ sent = FALSE
    /\ exit_path = "none"
    /\ cleanup_failed = FALSE

\* main.py 58-71: Browser(...) and SolWallet(...); either constructor may raise
SessionConstruct ==
    /\ at = "try"
    /\ \/ /\ browser' = TRUE /\ sol_wallet' = TRUE
          /\ at' = "start"
          /\ UNCHANGED exit_path
       \/ \E kind \in ExceptionKinds :
              /\ browser' \in BOOLEAN       \* FALSE: Browser raised, TRUE: SolWallet raised
              /\ UNCHANGED sol_wallet
              /\ at' = HandlerFor(kind)
              /\ exit_path' = IF kind = "DataBaseError" THEN "infrastructure_fatal"
                              ELSE "initialization_error"
    /\ UNCHANGED <<module_data, in_flight, reports, closed, removed, sent, cleanup_failed>>
    /\ UNCHANGED <<gateVars, pollVars, engineVars, startupVars, reconcileVars>>

\* main.py 73: Ranger(...).start(mode) returns a status or raises; the engine may have
\* recorded reports of the account meanwhile
SessionStart ==
    /\ at = "start"
    /\ reports' \in {reports, Recorded(reports), "no_actions"}
    /\ \/ /\ at' = "finally"
          /\ exit_path' = "engine_returned"
       \/ \E kind \in ExceptionKinds :
              /\ at' = HandlerFor(kind)
              /\ exit_path' = IF kind = "DataBaseError" THEN "infrastructure_fatal"
                              ELSE "account_error"
    /\ UNCHANGED <<browser, sol_wallet, module_data, in_flight, closed, removed, sent,
                   cleanup_failed>>
    /\ UNCHANGED <<gateVars, pollVars, engineVars, startupVars, reconcileVars>>

\* main.py 76-78: except DataBaseError: module_data = None; raise
SessionDataBaseError ==
    /\ at = "except_db"
    /\ module_data' = "None"
    /\ in_flight' = "DataBaseError"
    /\ at' = "finally"
    /\ UNCHANGED <<browser, sol_wallet, reports, closed, removed, sent, exit_path,
                   cleanup_failed>>
    /\ UNCHANGED <<gateVars, pollVars, engineVars, startupVars, reconcileVars>>

\* main.py 80-86: except Exception: the failure report is appended under the key of the
\* account (83 with a wallet, 86 without); an exception of db.append_report is raised
\* inside the handler, which no sibling clause catches
SessionExcept ==
    /\ at = "except"
    /\ \/ /\ reports' = Recorded(reports)
          /\ UNCHANGED in_flight
       \/ /\ in_flight' \in ExceptionKinds
          /\ UNCHANGED reports
    /\ at' = "finally"
    /\ UNCHANGED <<browser, sol_wallet, module_data, closed, removed, sent, exit_path,
                   cleanup_failed>>
    /\ UNCHANGED <<gateVars, pollVars, engineVars, startupVars, reconcileVars>>

\* main.py 88: if type(module_data) == dict
CleanupDue(data) == data = "dict"

\* main.py 88-96, 44-50: the transport sessions are closed; aclose_session and the bare
\* except of 93-96 contain a failing close (after a failing browser close the wallet
\* client is not closed either)
SessionClose ==
    /\ at = "finally"
    /\ IF CleanupDue(module_data)
       THEN /\ closed' \in CloseOutcomes
            /\ cleanup_failed' = (closed' # Opened)
            /\ at' = "remove"
       ELSE /\ at' = "leave"
            /\ UNCHANGED <<closed, cleanup_failed>>
    /\ UNCHANGED <<browser, sol_wallet, module_data, in_flight, reports, removed, sent,
                   exit_path>>
    /\ UNCHANGED <<gateVars, pollVars, engineVars, startupVars, reconcileVars>>

\* main.py 98: await db.remove_module(module_data=module_data)
SessionRemove ==
    /\ at = "remove"
    /\ \/ /\ removed' = TRUE
          /\ at' = "report"
          /\ UNCHANGED <<in_flight, cleanup_failed>>
       \/ /\ in_flight' \in ExceptionKinds
          /\ cleanup_failed' = TRUE
          /\ at' = "leave"
          /\ UNCHANGED removed
    /\ UNCHANGED <<browser, sol_wallet, module_data, reports, closed, sent, exit_path>>
    /\ UNCHANGED <<gateVars, pollVars, engineVars, startupVars, reconcileVars>>

\* main.py 100-103: the report is read and sent only with a wallet
SendDue(wallet, held) == wallet /\ ReportDue(held)

\* main.py 100-104: get_account_reports and TgReport().send_log
SessionReport ==
    /\ at = "report"
    /\ \/ /\ sent' = SendDue(sol_wallet, reports)
          /\ UNCHANGED <<in_flight, cleanup_failed>>
       \/ /\ sol_wallet
          /\ in_flight' \in ExceptionKinds
          /\ cleanup_failed' = TRUE
          /\ UNCHANGED sent
    /\ at' = "leave"
    /\ UNCHANGED <<browser, sol_wallet, module_data, reports, closed, removed, exit_path>>
    /\ UNCHANGED <<gateVars, pollVars, engineVars, startupVars, reconcileVars>>

\* main.py 106-108 and the end of the statement: after the sleep the exception in
\* flight, if any, leaves run_module
SessionLeave ==
    /\ at = "leave"
    /\ at' = IF in_flight = "none" THEN "returned" ELSE "raised"
    /\ UNCHANGED <<browser, sol_wallet, module_data, in_flight, reports, closed, removed,
                   sent, exit_path, cleanup_failed>>
    /\ UNCHANGED <<gateVars, pollVars, engineVars, startupVars, reconcileVars>>

NextSession ==
    \/ SessionConstruct
    \/ SessionStart
    \/ SessionDataBaseError
    \/ SessionExcept
    \/ SessionClose
    \/ SessionRemove
    \/ SessionReport
    \/ SessionLeave

SpecSession == InitSession /\ [][NextSession]_vars

Exited == at \in {"returned", "raised"}

\* C17: on every exit path whose cleanup calls all succeeded, the session has closed
\* the transport sessions it opened, has removed the account from the work queue and,
\* when reports of the account are recorded, has sent the final report.
C17_EveryExitCleansUp ==
    (Exited /\ ~cleanup_failed) =>
        /\ Opened \subseteq closed
        /\ removed
        /\ reports # "none" => sent

(***************************************************************************)
(* The combined startup message: send_combined_startup_message and the     *)
(* registration block of the first cycle                                   *)
(***************************************************************************)

MaxLabels == 2
MaxRegistrations == 4
Labels == 1..MaxLabels
TaskIds == 1..MaxRegistrations
Tasks == {t \in TaskIds : t <= Len(sender)}

\* averaging_strategy.py 869: if len(_startup_balances) == 1
SpawnDue(balances) == Cardinality(balances) = 1

LatchedUnderLockMutNever(latch) == FALSE
\* averaging_strategy.py 59: the latch is read again once the lock is held
LatchedUnderLock(latch) == latch

\* averaging_strategy.py 40-42: the module globals after import
InitStartup ==
    /\ GateIdle
    /\ PollIdle
    /\ EngineIdle
    /\ SessionIdle
    /\ ReconcileIdle
    /\ startup_balances = {}
    /\ startup_lock = {}
    /\ startup_message_sent = FALSE
    /\ sender = <<>>
    /\ registrations = 0
    /\ send_calls = 0

\* averaging_strategy.py 853-870: a cycle with iteration_count == 0 takes the lock,
\* stores the balances of its account under its label and, when the buffer then holds
\* one label, spawns a sender task; the block has no suspension point once the lock is
\* held, so it is one step that needs the lock free
Register(label) ==
    /\ registrations < MaxRegistrations
    /\ startup_lock = {}
    /\ registrations' = registrations + 1
    /\ startup_balances' = startup_balances \cup {label}
    /\ sender' = IF SpawnDue(startup_balances') THEN Append(sender, "called") ELSE sender
    /\ UNCHANGED <<startup_lock, startup_message_sent, send_calls>>
    /\ UNCHANGED <<gateVars, pollVars, engineVars, sessionVars, reconcileVars>>

\* averaging_strategy.py 52-56: the task starts, returns when the latch is set, else
\* sleeps 3 seconds
SenderBegins(t) ==
    /\ t \in Tasks
    /\ sender[t] = "called"
    /\ sender' = [sender EXCEPT ![t] = IF startup_message_sent THEN "returned" ELSE "sleep"]
    /\ UNCHANGED <<startup_balances, startup_lock, startup_message_sent, registrations,
                   send_calls>>
    /\ UNCHANGED <<gateVars, pollVars, engineVars, sessionVars, reconcileVars>>

\* averaging_strategy.py 58-77: after the sleep the task takes the lock, returns when
\* the latch is set or the buffer is empty, else builds the message and awaits
\* TgReport().send_log with the lock held
SenderEnters(t) ==
    /\ t \in Tasks
    /\ sender[t] = "sleep"
    /\ startup_lock = {}
    /\ IF LatchedUnderLock(startup_message_sent) \/ startup_balances = {}
       THEN /\ sender' = [sender EXCEPT ![t] = "returned"]
            /\ UNCHANGED <<startup_lock, send_calls>>
       ELSE /\ sender' = [sender EXCEPT ![t] = "sending"]
            /\ startup_lock' = {t}
            /\ send_calls' = send_calls + 1
    /\ UNCHANGED <<startup_balances, startup_message_sent, registrations>>
    /\ UNCHANGED <<gateVars, pollVars, engineVars, sessionVars, reconcileVars>>

\* averaging_strategy.py 76-82: send_log returns, or raises an exception that is
\* caught at 78; the latch is set and the lock released either way
SenderLeaves(t) ==
    /\ t \in Tasks
    /\ sender[t] = "sending"
    /\ startup_message_sent' = TRUE
    /\ startup_lock' = {}
    /\ sender' = [sender EXCEPT ![t] = "returned"]
    /\ UNCHANGED <<startup_balances, registrations, send_calls>>
    /\ UNCHANGED <<gateVars, pollVars, engineVars, sessionVars, reconcileVars>>

NextStartup ==
    \/ \E label \in Labels : Register(label)
    \/ \E t \in TaskIds : SenderBegins(t)
    \/ \E t \in TaskIds : SenderEnters(t)
    \/ \E t \in TaskIds : SenderLeaves(t)

SpecStartup == InitStartup /\ [][NextStartup]_vars

Sending == {t \in Tasks : sender[t] = "sending"}

\* C21: the combined 'bot started' message is sent at most once per process, whatever
\* the number of registering accounts and of sender tasks: a task is inside the send
\* only while it holds the lock, and no task sends once the latch is set.
C21_StartupMessageOnce ==
    /\ send_calls <= 1
    /\ \A t \in Sending : startup_lock = {t}
    /\ Cardinality(Sending) <= 1
    /\ startup_message_sent => send_calls = 1 /\ Sending = {}

\* three sender tasks were spawned, all have returned, one message went out with both
\* labels registered
C21_Witness ==
    /\ Len(sender) = 3
    /\ \A t \in Tasks : sender[t] = "returned"
    /\ send_calls = 1
    /\ startup_balances = Labels

(***************************************************************************)
(* Order reconciler: check_executed_limit_orders and the processed-fill    *)
(* cache on the client                                                     *)
(***************************************************************************)

\* averaging_strategy.py 562: the cache is trimmed once it holds more than this
CacheCap == 50

\* averaging_strategy.py 565: number of identifiers a trim keeps
CacheKeep == 25

\* averaging_strategy.py 517: age window of a fill, in seconds
MaxAge == 1800

\* settings.STEP as read at averaging_strategy.py 552 and 799
STEP == 50

\* What a raw record holds under last_updated_timestamp: a number of milliseconds,
\* nothing (dict.get returns its default 0) or None.
Stamp(ms) == [kind |-> "value", ms |-> ms]
Missing == [kind |-> "missing", ms |-> 0]
Null == [kind |-> "null", ms |-> 0]

\* Start of the explored time line, in seconds.
T0 == 10000

\* Number of quarter-hour steps the clock makes.
MaxTicks == 3

\* Number of polls followed in SpecPoll.
MaxPolls == 3

\* Identifiers of the records a poll response is freely built from.
MaxSmallId == 2

\* Longest freely built poll response.
MaxRespLen == 2

\* First identifier of a burst of fills (a response listing many filled orders).
BurstBase == 100

\* 10 ** d for the decimal counts used (averaging_strategy.py 365, 536)
Pow10(d) == IF d = 0 THEN 1 ELSE IF d = 1 THEN 10 ELSE 100

\* A raw venue record as get_open_limit_orders returns it.
Raw(id, status, pair, ts, amount, price) ==
    [id |-> id,                 \* limit_order_account_address or order_id
     status |-> status,         \* 0 pending, 1 filled, 2 cancelled
     status_kind |-> "int",     \* what order.get('status') is: "int", "str" or "none"
     status_str |-> "",         \* the status when it is a string
     pair |-> pair,             \* input_mint / output_mint are token / USDC
     ts |-> ts,                 \* last_updated_timestamp: Stamp(ms), Missing or Null
     initial_input_amount |-> amount,
     filled_output_amount |-> IF status = 1 THEN amount * price ELSE 0,
     expected_output_amount |-> amount * price,
     owner |-> "me",            \* user_wallet_address / owner / user / wallet_address
     input_mint_decimals |-> 0,
     output_mint_decimals |-> 0]

\* averaging_strategy.py 536-538: amount and price of a filled record
FilledAmount(o) == o.initial_input_amount \div Pow10(o.input_mint_decimals)
FilledPrice(o) ==
    IF FilledAmount(o) > 0
    THEN (o.filled_output_amount \div Pow10(o.output_mint_decimals)) \div FilledAmount(o)
    ELSE 0

\* averaging_strategy.py 548-554: the normalised executed order
ExecutedOrder(o) ==
    [order_id |-> o.id, amount |-> FilledAmount(o), tp_price |-> FilledPrice(o),
     entry_price |-> FilledPrice(o) - STEP]

\* averaging_strategy.py 513-517: order_age_seconds > 1800; an absent timestamp reads 0
TooOldMutNoWindow(o, now) == FALSE
TooOld(o, now) ==
    LET stamp == IF o.ts = Missing THEN 0 ELSE o.ts.ms \div 1000
    IN  now - stamp > MaxAge

\* averaging_strategy.py 526: an identifier of the cache is skipped
AlreadyProcessedMutNever(id, cache) == FALSE
AlreadyProcessed(id, cache) == id \in cache

\* averaging_strategy.py 501: order.get('status') != 1 skips the record; a string or an
\* absent status is not equal to 1
StatusIsFilled(o) == o.status_kind = "int" /\ o.status = 1

\* averaging_strategy.py 499-559: one pass of the loop body over record o.
\* st = [cache, executed, raised]
PollRecord(st, o, initialized, now) ==
    IF ~StatusIsFilled(o) THEN st
    ELSE IF ~o.pair THEN st
    ELSE IF o.ts = Null THEN [st EXCEPT !.raised = TRUE]       \* None / 1000
    ELSE IF TooOld(o, now) THEN st
    ELSE IF ~initialized THEN [st EXCEPT !.cache = @ \cup {o.id}]
    ELSE IF AlreadyProcessed(o.id, st.cache) THEN st
    ELSE [st EXCEPT !.executed = Append(@, ExecutedOrder(o)),
                    !.cache = @ \cup {o.id}]

\* averaging_strategy.py 499: for order in all_orders, from record i on; a raise
\* leaves the loop
RECURSIVE PollFrom(_, _, _, _, _)
PollFrom(st, resp, i, initialized, now) ==
    IF i > Len(resp) \/ st.raised THEN st
    ELSE PollFrom(PollRecord(st, resp[i], initialized, now), resp, i + 1,
                  initialized, now)

PollLoop(st, resp, initialized, now) == PollFrom(st, resp, 1, initialized, now)

\* Orders in which list(set) may enumerate the cache: rotations of the identifier
\* order; the enumeration order of a Python set of strings is not the insertion order.
TrimSeeds == {0, 17}
TrimKey(id, seed) == (id + seed) % 128

\* averaging_strategy.py 564-566: set(list(cache)[-25:]), the last CacheKeep
\* identifiers of the enumeration
TrimmedMutKeepAll(cache, seed) == cache
Trimmed(cache, seed) ==
    {x \in cache :
        Cardinality({y \in cache : TrimKey(y, seed) > TrimKey(x, seed)}) < CacheKeep}

\* averaging_strategy.py 562: the trim runs when the cache holds more than CacheCap
NeedsTrimMutOffByTen(cache) == Cardinality(cache) > CacheCap + 10
NeedsTrim(cache) == Cardinality(cache) > CacheCap

\* averaging_strategy.py 478-578: check_executed_limit_orders. cache and initialized
\* are the client's fields on entry, fetched tells whether get_open_limit_orders
\* returned (FALSE: it raised), resp is its answer.
\* Result: the set of possible outcomes [cache, initialized, executed, raised], one per
\* enumeration order when the cache is trimmed.
check_executed_limit_orders(cache, initialized, fetched, resp, now) ==
    IF ~fetched
    THEN {[cache |-> cache, initialized |-> initialized, executed |-> <<>>,
           raised |-> TRUE]}
    ELSE IF resp = <<>>
    THEN {[cache |-> cache, initialized |-> initialized, executed |-> <<>>,
           raised |-> FALSE]}
    ELSE LET st == PollLoop([cache |-> cache, executed |-> <<>>, raised |-> FALSE],
                            resp, initialized, now)
         IN  IF st.raised
             THEN {[cache |-> st.cache, initialized |-> initialized,
                    executed |-> st.executed, raised |-> TRUE]}
             ELSE IF NeedsTrim(st.cache)
             THEN {[cache |-> Trimmed(st.cache, seed), initialized |-> TRUE,
                    executed |-> st.executed, raised |-> FALSE] : seed \in TrimSeeds}
             ELSE {[cache |-> st.cache, initialized |-> TRUE,
                    executed |-> st.executed, raised |-> FALSE]}

\* ---- inputs of SpecPoll ----

\* A filled order of the pair, one token sold at 1000 + STEP.
Filled(id, ts) == Raw(id, 1, TRUE, ts, 1, 1000 + STEP)

\* Records a poll response is freely built from at time now: filled orders of the pair
\* updated just now, exactly at the edge of the age window, one second beyond it, with
\* no timestamp and with timestamp None; a filled order of another pair; an open order.
SmallRecords(now) ==
    {Filled(id, Stamp(now * 1000)) : id \in 1..MaxSmallId}
    \cup {Filled(1, Stamp((now - MaxAge) * 1000)),
          Filled(1, Stamp((now - MaxAge - 1) * 1000)),
          Filled(1, Missing),
          Filled(MaxSmallId, Null),
          Raw(1, 1, FALSE, Stamp(now * 1000), 1, 1000 + STEP),
          Raw(MaxSmallId, 0, TRUE, Stamp(now * 1000), 1, 1000 + STEP)}

RECURSIVE SeqsUpTo(_, _)
SeqsUpTo(S, n) ==
    IF n = 0 THEN {<<>>}
    ELSE LET shorter == SeqsUpTo(S, n - 1)
         IN  shorter \cup {Append(q, x) : q \in {r \in shorter : Len(r) = n - 1}, x \in S}

\* n orders filled at T0, all of the pair
Burst(n) == [i \in 1..n |-> Filled(BurstBase + i, Stamp(T0 * 1000))]

\* burst sizes around the cap
BurstSizes == {CacheCap - 1, CacheCap, CacheCap + 1}

\* a record the loop cannot read: filled, of the pair, timestamp None
Unreadable == Filled(MaxSmallId, Null)

BurstResponses ==
    {Burst(n) : n \in BurstSizes} \cup {Burst(n) \o <<Unreadable>> : n \in BurstSizes}

Responses(now) ==
    SeqsUpTo(SmallRecords(now), MaxRespLen)
    \cup BurstResponses

Ids(orders) == {orders[i].order_id : i \in 1..Len(orders)}

InitPoll ==
    /\ GateIdle
    /\ EngineIdle
    /\ SessionIdle
    /\ StartupIdle
    /\ ReconcileIdle
    /\ clock = T0
    /\ has_cache = FALSE
    /\ previous_filled_order_ids = {}
    /\ orders_cache_initialized = FALSE
    /\ executed_orders = <<>>
    /\ poll_raised = FALSE
    /\ ever_cached = {}
    /\ polls = 0
    /\ first_snapshot = {}

\* time passes between polls
Tick ==
    /\ clock < T0 + MaxTicks * (MaxAge \div 2)
    /\ clock' = clock + MaxAge \div 2
    /\ UNCHANGED <<has_cache, previous_filled_order_ids, orders_cache_initialized,
                   executed_orders, poll_raised, ever_cached, polls, first_snapshot>>
    /\ UNCHANGED <<gateVars, engineVars, sessionVars, startupVars, reconcileVars>>

\* averaging_strategy.py 499-523: the identifiers the first invocation adds to the
\* cold cache, one per record that is filled, of the pair and inside the age window,
\* up to a record the loop cannot read
Absorbed(fetched, resp, now) ==
    IF ~fetched THEN {}
    ELSE PollLoop([cache |-> {}, executed |-> <<>>, raised |-> FALSE], resp, FALSE,
                  now).cache

\* one call of check_executed_limit_orders on the client
Poll(fetched, resp) ==
    /\ polls < MaxPolls
    /\ \E r \in check_executed_limit_orders(previous_filled_order_ids,
                                            orders_cache_initialized, fetched, resp,
                                            clock) :
        /\ polls' = polls + 1
        /\ has_cache' = TRUE
        /\ previous_filled_order_ids' = r.cache
        /\ orders_cache_initialized' = r.initialized
        /\ executed_orders' = r.executed
        /\ poll_raised' = r.raised
        /\ ever_cached' = ever_cached \cup r.cache \cup Ids(r.executed)
        /\ first_snapshot' = IF polls = 0 THEN Absorbed(fetched, resp, clock)
                              ELSE first_snapshot
        /\ UNCHANGED clock
        /\ UNCHANGED <<gateVars, engineVars, sessionVars, startupVars, reconcileVars>>

\* the venue answers the poll
PollAnswered == \E resp \in Responses(clock) : Poll(TRUE, resp)

\* get_open_limit_orders raises
PollFetchFails == Poll(FALSE, <<>>)

NextPoll ==
    \/ Tick
    \/ PollAnswered
    \/ PollFetchFails

SpecPoll == InitPoll /\ [][NextPoll]_vars

\* C3: an identifier that was once inserted into the processed-fill cache is never
\* again returned by check_executed_limit_orders as a new fill.
C3_NeverReportedAgain ==
    [][polls' # polls =>
        \A i \in 1..Len(executed_orders') : executed_orders'[i].order_id \notin ever_cached]_vars

\* C9: after every return of check_executed_limit_orders, also of a poll that failed
\* part-way, the processed-fill cache holds at most 50 identifiers.
C9_CacheAtMostCap == Cardinality(previous_filled_order_ids) <= CacheCap

\* C18: a poll that failed, at the venue call or at a record of the response, returns
\* an empty list of fills: nothing of a partially processed response.
C18_FailedPollReturnsNothing == poll_raised => executed_orders = <<>>

\* C32: the first invocation of check_executed_limit_orders for an account absorbs all
\* currently filled orders into the processed-fill cache and returns no fill; from the
\* second invocation on no order of that first snapshot is returned as a new fill.
C32_FirstSnapshotNeverReported ==
    /\ polls = 1 => executed_orders = <<>> /\ first_snapshot \subseteq previous_filled_order_ids
    /\ Ids(executed_orders) \cap first_snapshot = {}

\* C39: a fill's identifier is put into the processed-fill cache when the fill is
\* detected, so each detected fill is handed over at most once: a fill one poll has
\* returned is not returned by the next poll, whatever became of its processing.
C39_FillHandedOverOnce ==
    [][polls' # polls =>
        /\ Ids(executed_orders') \cap Ids(executed_orders) = {}
        /\ ~poll_raised' => Ids(executed_orders') \subseteq previous_filled_order_ids']_vars

\* ---- one poll, from every state the client's cache can be in ----

\* Poll times: T0 and the quarter hours after it.
PollTimes == {T0 + k * (MaxAge \div 2) : k \in 0..MaxTicks}

\* The client before the poll: the cache cold (not initialised; identifiers are left in
\* it when the first poll failed part-way), warm, or initialised and without an
\* identifier it held once (trimmed away at 562-566).
InitWindow ==
    /\ GateIdle
    /\ EngineIdle
    /\ SessionIdle
    /\ StartupIdle
    /\ clock \in PollTimes
    /\ has_cache = TRUE
    /\ previous_filled_order_ids \in SUBSET (1..MaxSmallId)
    /\ orders_cache_initialized \in BOOLEAN
    /\ executed_orders = <<>>
    /\ poll_raised = FALSE
    /\ ever_cached = 1..MaxSmallId
    /\ polls = 0
    /\ first_snapshot = {}
    /\ exchange_orders \in SeqsUpTo(SmallRecords(clock), MaxRespLen)
    /\ open_list = <<>>
    /\ fill_list = <<>>
    /\ reconciled = FALSE

\* averaging_strategy.py 458-578: the poll reads the response exchange_orders
PollOnce ==
    /\ ~reconciled
    /\ \E r \in check_executed_limit_orders(previous_filled_order_ids,
                                            orders_cache_initialized, TRUE,
                                            exchange_orders, clock) :
        /\ previous_filled_order_ids' = r.cache
        /\ orders_cache_initialized' = r.initialized
        /\ executed_orders' = r.executed
        /\ fill_list' = r.executed
        /\ poll_raised' = r.raised
    /\ polls' = polls + 1
    /\ reconciled' = TRUE
    /\ UNCHANGED <<clock, has_cache, ever_cached, first_snapshot, exchange_orders,
                   open_list>>
    /\ UNCHANGED <<gateVars, engineVars, sessionVars, startupVars>>

NextWindow ==
    \/ PollOnce

SpecWindow == InitWindow /\ [][NextWindow]_vars

\* a record of the response that is filled, of the pair, and carries a last-update
\* timestamp no more than MaxAge seconds before now
FreshFill(o, now) ==
    /\ StatusIsFilled(o) /\ o.pair
    /\ o.ts.kind = "value"
    /\ now - o.ts.ms \div 1000 <= MaxAge

\* a record of the response that is filled, of the pair, and either updated more than
\* MaxAge seconds before now or without the key last_updated_timestamp
StaleFill(o, now) ==
    /\ StatusIsFilled(o) /\ o.pair
    /\ \/ o.ts.kind = "missing"
       \/ o.ts.kind = "value" /\ now - o.ts.ms \div 1000 > MaxAge

\* C31: a filled order whose last-update timestamp lies more than 1800 s before the
\* poll time, or that has no last-update timestamp, is never reported as a new fill:
\* every order a poll returns was made from a record of its response that is filled
\* and updated within the window, whatever the cache held (cold, trimmed, warm).
C31_StaleFillNeverReported ==
    reconciled =>
        \A i \in 1..Len(fill_list) :
            \E k \in 1..Len(exchange_orders) :
                /\ exchange_orders[k].id = fill_list[i].order_id
                /\ FreshFill(exchange_orders[k], clock)

\* C31 happens: a poll on an initialised cache reported a fresh fill and left out a
\* stale filled order of the pair whose identifier the cache did not hold.
C31_Witness ==
    /\ reconciled
    /\ fill_list # <<>>
    /\ \E k \in 1..Len(exchange_orders) :
        /\ StaleFill(exchange_orders[k], clock)
        /\ exchange_orders[k].id \notin previous_filled_order_ids
        /\ exchange_orders[k].id \notin Ids(fill_list)

(***************************************************************************)
(* get_tp_orders_from_exchange                                             *)
(***************************************************************************)

\* averaging_strategy.py 351-386: the normalised open order
TpOrder(o) ==
    LET token_amount == o.initial_input_amount \div Pow10(o.input_mint_decimals)
        usdc_amount == o.expected_output_amount \div Pow10(o.output_mint_decimals)
        limit_price == IF token_amount > 0 THEN usdc_amount \div token_amount ELSE 0
    IN  [order_id |-> o.id, amount |-> token_amount, tp_price |-> limit_price,
         entry_price |-> limit_price - STEP]

\* str.lower() on the status strings explored
Lower(str) ==
    CASE str = "Open" -> "open"
      [] str = "ACTIVE" -> "active"
      [] str = "Cancelled" -> "cancelled"
      [] OTHER -> str

\* averaging_strategy.py 308: the strings that let a record through
AcceptedStrings == {"pending", "open", "active", ""}

StatusPassesMutIntOnly(o) == o.status_kind = "int" /\ o.status = 0
\* averaging_strategy.py 300-311: an int status must be 0, a string status must be one
\* of the accepted strings in any case, a status of another type or None passes
StatusPasses(o) ==
    IF o.status_kind = "int" THEN o.status = 0
    ELSE IF o.status_kind = "str" THEN Lower(o.status_str) \in AcceptedStrings
    ELSE TRUE

\* averaging_strategy.py 314-323: wallet_match = not order_owner or order_owner ==
\* user_wallet; "none" is a record without owner field
WalletMatch(owner) == owner = "none" \/ owner = "me"

SeenBeforeMutNever(id, st) == FALSE
\* averaging_strategy.py 341-346: order_id in seen_order_ids; an identifier enters
\* seen_order_ids exactly when its record is appended
SeenBefore(id, st) == id \in Ids(st)

\* averaging_strategy.py 279-386: one pass of the loop body; st is tp_orders so far
OpenRecord(st, o) ==
    IF o.filled_output_amount > 0 THEN st
    ELSE IF ~StatusPasses(o) THEN st
    ELSE IF ~o.pair THEN st
    ELSE IF ~WalletMatch(o.owner) THEN st
    ELSE IF SeenBefore(o.id, st) THEN st
    ELSE Append(st, TpOrder(o))

RECURSIVE OpenFrom(_, _, _)
OpenFrom(st, resp, i) ==
    IF i > Len(resp) THEN st
    ELSE LET next == OpenRecord(st, resp[i])
         IN  IF Len(next) >= 0 THEN OpenFrom(next, resp, i + 1) ELSE next

\* averaging_strategy.py 237-455: fetched is FALSE when get_open_limit_orders raised;
\* the except branch returns the list built so far
get_tp_orders_from_exchange(fetched, resp) ==
    IF ~fetched THEN <<>> ELSE OpenFrom(<<>>, resp, 1)

(***************************************************************************)
(* One venue response put through get_tp_orders_from_exchange and          *)
(* check_executed_limit_orders                                             *)
(***************************************************************************)

\* Longest response explored.
MaxWireLen == 2

\* Identifiers of the records of a response.
MaxWireId == 2

\* What order.get('status') may be: an int, a string, or None / absent.
IntStatus(n) == [kind |-> "int", int |-> n, str |-> ""]
StrStatus(x) == [kind |-> "str", int |-> 0, str |-> x]
NoStatus == [kind |-> "none", int |-> 0, str |-> ""]
WireStatuses ==
    {IntStatus(n) : n \in 0..2}
    \cup {StrStatus(x) : x \in {"pending", "Open", "ACTIVE", "", "filled", "Cancelled"}}
    \cup {NoStatus}

\* filled_output_amount: negative, nothing filled, filled
FilledOutputs == {-1, 0, 1000 + STEP}

\* the owner field: absent, this account's wallet, another wallet
Owners == {"none", "me", "other"}

\* A raw record of any status, fill amount, pair and owner, updated at T0.
Wire(id, status, filled, pair, owner) ==
    [Raw(id, status.int, pair, Stamp(T0 * 1000), 1, 1000 + STEP)
        EXCEPT !.status_kind = status.kind,
               !.status_str = status.str,
               !.filled_output_amount = filled,
               !.owner = owner]

WireRecords ==
    {Wire(id, status, filled, pair, owner) :
        id \in 1..MaxWireId, status \in WireStatuses, filled \in FilledOutputs,
        pair \in BOOLEAN, owner \in Owners}

\* The record at position k of a response sells k tokens, so that a normalised order
\* tells by its amount which record it was made from.
Positioned(q) ==
    [k \in 1..Len(q) |-> [q[k] EXCEPT !.initial_input_amount = k,
                                      !.expected_output_amount = k * (1000 + STEP)]]

WireResponses == {Positioned(q) : q \in SeqsUpTo(WireRecords, MaxWireLen)}

InitReconcile ==
    /\ GateIdle
    /\ PollIdle
    /\ EngineIdle
    /\ SessionIdle
    /\ StartupIdle
    /\ exchange_orders \in WireResponses
    /\ open_list = <<>>
    /\ fill_list = <<>>
    /\ reconciled = FALSE

\* averaging_strategy.py 237-455, 458-578: both functions read the response; the fill
\* cache is initialised and empty, the clock stands at T0
Reconcile ==
    /\ ~reconciled
    /\ open_list' = get_tp_orders_from_exchange(TRUE, exchange_orders)
    /\ \E out \in check_executed_limit_orders({}, TRUE, TRUE, exchange_orders, T0) :
           fill_list' = out.executed
    /\ reconciled' = TRUE
    /\ UNCHANGED exchange_orders
    /\ UNCHANGED <<gateVars, pollVars, engineVars, sessionVars, startupVars>>

NextReconcile ==
    \/ Reconcile

SpecReconcile == InitReconcile /\ [][NextReconcile]_vars

Positions == 1..Len(exchange_orders)

\* the positions of the records the entries of a result list were made from
Sources(list) == {k \in Positions : \E e \in 1..Len(list) : list[e].amount = k}

\* the record has the token / USDC pair and no owner field or this account's wallet
Ours(o) == o.pair /\ (o.owner = "none" \/ o.owner = "me")

\* no other record of the response carries the identifier of record k
Alone(k) == \A j \in Positions : j # k => exchange_orders[j].id # exchange_orders[k].id

\* C28 (as stated): a record of the pair and owner is in the open list exactly when its
\* filled_output_amount is not positive and its status is the int 0 or one of the
\* accepted strings; a record with filled_output_amount > 0 is never in the open list.
C28_OpenIffStatusAccepted ==
    reconciled =>
        \A k \in Positions :
            LET o == exchange_orders[k]
            IN  /\ (Ours(o) /\ Alone(k)) =>
                    (k \in Sources(open_list) <=>
                        /\ o.filled_output_amount <= 0
                        /\ \/ o.status_kind = "int" /\ o.status = 0
                           \/ o.status_kind = "str" /\ Lower(o.status_str) \in AcceptedStrings)
                /\ o.filled_output_amount > 0 => k \notin Sources(open_list)

\* C28 (amended): a record of the pair and owner is in the open list exactly when its
\* filled_output_amount is not positive and its status is the int 0, one of the accepted
\* strings, or absent (None); a record with filled_output_amount > 0 is never in it.
C28_OpenIffStatusNotRejected ==
    reconciled =>
        \A k \in Positions :
            LET o == exchange_orders[k]
            IN  /\ (Ours(o) /\ Alone(k)) =>
                    (k \in Sources(open_list) <=>
                        /\ o.filled_output_amount <= 0
                        /\ \/ o.status_kind = "int" /\ o.status = 0
                           \/ o.status_kind = "str" /\ Lower(o.status_str) \in AcceptedStrings
                           \/ o.status_kind = "none")
                /\ o.filled_output_amount > 0 => k \notin Sources(open_list)

\* a record without status and nothing filled is listed as open next to a record of
\* status 0 that is left out because its filled_output_amount is positive
C28_Witness ==
    /\ reconciled
    /\ Len(exchange_orders) = 2
    /\ exchange_orders[1].status_kind = "int" /\ exchange_orders[1].status = 0
    /\ exchange_orders[1].filled_output_amount > 0
    /\ Ours(exchange_orders[1])
    /\ exchange_orders[2].status_kind = "none"
    /\ exchange_orders[2].filled_output_amount = 0
    /\ Sources(open_list) = {2}

\* C29: every order of the open list and of the new-fill list was made from a record of
\* the token / USDC pair whose owner field is absent or this account's wallet.
C29_ReturnedOrdersAreOurs ==
    reconciled =>
        \A k \in Sources(open_list) \cup Sources(fill_list) : Ours(exchange_orders[k])

\* the record passes the filters of the open list / of the new-fill list
OpenQualifies(o) == OpenRecord(<<>>, o) # <<>>
FillQualifies(o) ==
    PollRecord([cache |-> {}, executed |-> <<>>, raised |-> FALSE], o, TRUE, T0).executed
        # <<>>

\* C30: neither list holds an identifier twice, and the order kept for an identifier is
\* made from the first record of the response that carries it and passes the filters.
C30_NoIdentifierTwice ==
    reconciled =>
        /\ Cardinality(Ids(open_list)) = Len(open_list)
        /\ Cardinality(Ids(fill_list)) = Len(fill_list)
        /\ \A k \in Sources(open_list) : \A j \in 1..(k - 1) :
               exchange_orders[j].id = exchange_orders[k].id =>
                   ~OpenQualifies(exchange_orders[j])
        /\ \A k \in Sources(fill_list) : \A j \in 1..(k - 1) :
               exchange_orders[j].id = exchange_orders[k].id =>
                   ~FillQualifies(exchange_orders[j])
        /\ \A k \in Positions :
               /\ (OpenQualifies(exchange_orders[k]) /\ Alone(k)) => k \in Sources(open_list)
               /\ (FillQualifies(exchange_orders[k]) /\ Alone(k)) => k \in Sources(fill_list)

\* the response repeats an identifier in two open records and the first one is kept
C30_Witness ==
    /\ reconciled
    /\ Len(exchange_orders) = 2
    /\ exchange_orders[1].id = exchange_orders[2].id
    /\ OpenQualifies(exchange_orders[1]) /\ OpenQualifies(exchange_orders[2])
    /\ Sources(open_list) = {1}
    /\ Len(open_list) = 1

(***************************************************************************)
(* trade_averaging_strategy: the cycle loop of one account                 *)
(***************************************************************************)

\* Number of limit orders the venue holds for the account.
MaxOrders == 2

\* Number of cycles followed.
MaxCycles == 3

\* Number of starts of the engine (the first one and the self-restarts).
MaxRuns == 2

\* Entry price the explored price levels lie around.
EntryPrice == 1000

\* Values of settings.AGGR explored.
AggrValues == {2, 3}

\* Market prices: around EntryPrice - STEP, which is STEP * 2 below a TP at
\* EntryPrice + STEP.
Prices == {EntryPrice - STEP - 1, EntryPrice - STEP, EntryPrice - STEP + 1}

\* Fill prices of a market buy
BuyPrices == {EntryPrice - STEP, EntryPrice}

\* Largest token amount a market buy reports
MaxAmount == 2

\* buy_result of place_market_order: the fill it reports, NoFill when there is none
NoFill == [price |-> 0, to_amount |-> 0]

\* the fills explored in the cycle loop at large: one token at either price
Fills == {NoFill} \cup [price : BuyPrices, to_amount : {1}]

\* the fills explored from an account without orders: every amount up to MaxAmount
WideFills == {NoFill} \cup [price : BuyPrices, to_amount : 1..MaxAmount]

\* calculate_position_size() and the USDC balances around it
PositionSizes == {100}
UsdcLevels == {99, 100}

\* token balances: nothing, or more than every resting order together
TokenLevels == {0, MaxOrders * MaxAmount + 1}

OrderIds == 1..MaxOrders

\* confirmed: place_limit_order answered this session with the order's identifier;
\* surplus: USDC per token the execution paid above the limit price
NoOrder ==
    [status |-> "none", amount |-> 0, price |-> 0, confirmed |-> FALSE, surplus |-> 0]
OpenOrder(amount, price) ==
    [status |-> "open", amount |-> amount, price |-> price, confirmed |-> FALSE,
     surplus |-> 0]

\* Orders the venue holds when the engine starts: none; one resting TP of one token at
\* EntryPrice + STEP; one resting order of zero tokens; one TP filled a moment ago.
InitialVenues ==
    {[i \in OrderIds |-> NoOrder],
     [i \in OrderIds |-> IF i = 1 THEN OpenOrder(1, EntryPrice + STEP) ELSE NoOrder],
     [i \in OrderIds |-> IF i = 1 THEN OpenOrder(0, EntryPrice + STEP) ELSE NoOrder],
     [i \in OrderIds |-> IF i = 1
                         THEN [OpenOrder(1, EntryPrice + STEP) EXCEPT !.status = "filled"]
                         ELSE NoOrder]}

\* The raw record the venue returns for order id
RawOf(v, id) ==
    [Raw(id, IF v[id].status = "filled" THEN 1 ELSE 0, TRUE, Stamp(T0 * 1000),
         v[id].amount, v[id].price)
        EXCEPT !.filled_output_amount =
                   IF v[id].status = "filled"
                   THEN v[id].amount * (v[id].price + v[id].surplus) ELSE 0]

\* browser.get_open_limit_orders(): every order the venue holds, open and filled
AllOrders(v) ==
    LET Held(i) == v[i].status # "none"
        ids == SelectSeq([i \in OrderIds |-> i], Held)
    IN  [k \in 1..Len(ids) |-> RawOf(v, ids[k])]

RECURSIVE SumAmounts(_, _)
SumAmounts(orders, i) ==
    IF i > Len(orders) THEN 0 ELSE orders[i].amount + SumAmounts(orders, i + 1)

TpPrices(orders) == {orders[i].tp_price : i \in 1..Len(orders)}
MinOf(S) == CHOOSE x \in S : \A y \in S : x <= y
MaxOf(S) == CHOOSE x \in S : \A y \in S : x >= y

\* averaging_strategy.py 957-963
MinTpPrice(orders) == IF orders = <<>> THEN <<>> ELSE <<MinOf(TpPrices(orders))>>
MaxTpPrice(orders) == IF orders = <<>> THEN <<>> ELSE <<MaxOf(TpPrices(orders))>>

\* Python truth value of an optional Decimal: None and 0 are false
Truthy(opt) == opt # <<>> /\ opt[1] # 0

\* averaging_strategy.py 877: fills are checked from the second iteration on
ChecksFillsMutAlways(count) == TRUE
ChecksFills(count) == count > 0

\* averaging_strategy.py 969-974: orphaned amount above zero and not logged yet
OrphanLogDueMutEveryCycle(tokens, orders, logged) == tokens - SumAmounts(orders, 1) > 0
OrphanLogDue(tokens, orders, logged) ==
    tokens - SumAmounts(orders, 1) > 0 /\ ~logged

\* averaging_strategy.py 997: the first position is opened when no TP order is open
FirstPositionDueMutAlways(orders) == TRUE
FirstPositionDueMutNever(orders) == FALSE
FirstPositionDue(orders) == orders = <<>>

\* averaging_strategy.py 1119: averaging trigger
AveragingDueMutNotStrict(min_tp, price, step) ==
    Truthy(min_tp) /\ price <= min_tp[1] - step * 2
AveragingDue(min_tp, price, step) ==
    Truthy(min_tp) /\ price < min_tp[1] - step * 2

\* averaging_strategy.py 1239: pyramiding trigger, pwr = step * aggr
PyramidingDueMutNotStrict(max_tp, price, pwr) ==
    Truthy(max_tp) /\ price >= max_tp[1] - pwr
PyramidingDue(max_tp, price, pwr) ==
    Truthy(max_tp) /\ price > max_tp[1] - pwr

TpPriceForMutNoStep(actual_price) == actual_price
\* averaging_strategy.py 1061: tp_price = actual_price + step
TpPriceFor(actual_price) == actual_price + STEP

\* averaging_strategy.py 1032, 1065: token_amount = Decimal(str(buy_result['to_amount']))
\* is handed to create_tp_order as it is
TpAmountFor(token_amount) == token_amount

cacheVars == <<has_cache, previous_filled_order_ids, orders_cache_initialized,
               poll_raised, ever_cached>>
fixedVars == <<gateVars, sessionVars, startupVars, reconcileVars, clock, polls, first_snapshot,
               trading_enabled, aggr, signals>>
cycleHistory == <<cycle_report, cycle_fills, cycle_checked, cycle_profits, decided_orders, cycle_buys,
                  cycle_tps>>
runHistory == <<runs, cycles, run_cycles, orphan_logs, run_orphan_logs>>

\* averaging_strategy.py 786-812: the state when the engine is first called
InitEngine ==
    /\ GateIdle
    /\ SessionIdle
    /\ StartupIdle
    /\ ReconcileIdle
    /\ clock = T0 /\ polls = 0 /\ first_snapshot = {}
    /\ has_cache = FALSE /\ previous_filled_order_ids = {}
    /\ orders_cache_initialized = FALSE /\ executed_orders = <<>>
    /\ poll_raised = FALSE /\ ever_cached = {}
    /\ venue \in InitialVenues
    /\ shutdown_requested = FALSE
    /\ trading_enabled \in BOOLEAN
    /\ aggr \in AggrValues
    /\ pc = "top"
    /\ iteration_count = 0
    /\ orphaned_logged = FALSE
    /\ current_tp_orders = <<>> /\ current_price = 0 /\ usdc_balance = 0
    /\ token_balance = 0 /\ position_size = 0
    /\ min_tp_price = <<>> /\ max_tp_price = <<>> /\ fill_index = 0
    /\ tp_orders = <<>>
    /\ runs = 1 /\ cycles = 0 /\ run_cycles = 0 /\ orphan_logs = 0 /\ run_orphan_logs = 0
    /\ cycle_report = <<>> /\ cycle_fills = {} /\ cycle_profits = {}
    /\ cycle_checked = FALSE
    /\ decided_orders = <<>> /\ cycle_buys = <<>> /\ cycle_tps = <<>>
    /\ signals = 0

\* averaging_strategy.py 816-817: `import main` loads main.py once more under the name
\* main, because the running script is the module __main__; the flag read here is the one
\* of that second module, which nothing assigns after its initial False
imported_shutdown_requested == FALSE

\* The control leaves the cycle for line 813 or for an except branch. The locals the next cycle assigns before it reads
\* them, and the record of the cycle, are cleared; current_tp_orders keeps its value
\* until line 829 replaces it.
CycleLeft(next) ==
    /\ pc' = next
    /\ executed_orders' = <<>> /\ current_price' = 0 /\ usdc_balance' = 0
    /\ token_balance' = 0 /\ position_size' = 0
    /\ min_tp_price' = <<>> /\ max_tp_price' = <<>> /\ fill_index' = 0
    /\ cycle_report' = <<>> /\ cycle_fills' = {} /\ cycle_profits' = {}
    /\ cycle_checked' = FALSE
    /\ decided_orders' = <<>> /\ cycle_buys' = <<>> /\ cycle_tps' = <<>>

leftFrame == <<fixedVars, cacheVars, envVars, current_tp_orders, tp_orders>>

\* averaging_strategy.py 814-827: a cycle starts
EngineTop ==
    /\ pc = "top"
    /\ ~imported_shutdown_requested
    /\ cycles < MaxCycles
    /\ cycles' = cycles + 1
    /\ run_cycles' = run_cycles + 1
    /\ pc' = "fetch"
    /\ UNCHANGED <<fixedVars, cacheVars, envVars, executed_orders, iteration_count,
                   orphaned_logged, current_tp_orders, current_price, usdc_balance,
                   token_balance, position_size, min_tp_price, max_tp_price, fill_index,
                   tp_orders, cycleHistory, runs, orphan_logs, run_orphan_logs>>

\* averaging_strategy.py 829-873: open orders, price and balances are read
EngineFetch ==
    /\ pc = "fetch"
    /\ \E fetched \in BOOLEAN :
        /\ current_tp_orders' = get_tp_orders_from_exchange(fetched, AllOrders(venue))
        /\ cycle_report' = current_tp_orders'
    /\ current_price' \in Prices
    /\ usdc_balance' \in UsdcLevels
    /\ token_balance' \in TokenLevels
    /\ pc' = "check"
    /\ UNCHANGED <<fixedVars, cacheVars, envVars, executed_orders, iteration_count,
                   orphaned_logged, position_size, min_tp_price, max_tp_price,
                   fill_index, tp_orders, cycle_fills, cycle_checked, cycle_profits, decided_orders,
                   cycle_buys, cycle_tps, runHistory>>

\* averaging_strategy.py 836-840, 1382: the price or a balance read raises
EngineFetchRaises ==
    /\ pc = "fetch"
    /\ \E fetched \in BOOLEAN :
        current_tp_orders' = get_tp_orders_from_exchange(fetched, AllOrders(venue))
    /\ CycleLeft("error")
    /\ UNCHANGED <<fixedVars, cacheVars, envVars, tp_orders, iteration_count,
                   orphaned_logged, runHistory>>

\* averaging_strategy.py 875-880: executed orders are looked for, except while
\* iteration_count is 0
EngineCheck ==
    /\ pc = "check"
    /\ IF ChecksFills(iteration_count)
       THEN \E fetched \in BOOLEAN :
            \E r \in check_executed_limit_orders(previous_filled_order_ids,
                                                 orders_cache_initialized, fetched,
                                                 AllOrders(venue), clock) :
                /\ has_cache' = TRUE
                /\ previous_filled_order_ids' = r.cache
                /\ orders_cache_initialized' = r.initialized
                /\ poll_raised' = r.raised
                /\ ever_cached' = ever_cached \cup r.cache \cup Ids(r.executed)
                /\ executed_orders' = r.executed
                /\ cycle_fills' = Ids(r.executed)
                /\ cycle_checked' = TRUE
       ELSE /\ executed_orders' = <<>>
            /\ UNCHANGED <<cacheVars, cycle_fills, cycle_checked>>
    /\ fill_index' = 1
    /\ pc' = "fills"
    /\ UNCHANGED <<fixedVars, envVars, iteration_count, orphaned_logged,
                   current_tp_orders, current_price, usdc_balance, token_balance,
                   position_size, min_tp_price, max_tp_price, tp_orders, cycle_report,
                   cycle_profits, decided_orders, cycle_buys, cycle_tps, runHistory>>

\* averaging_strategy.py 883-951: one executed order is processed: balances and open
\* orders are read again, the profit message is sent
EngineFillProcessed ==
    /\ pc = "fills"
    /\ fill_index <= Len(executed_orders)
    /\ usdc_balance' \in UsdcLevels
    /\ token_balance' \in TokenLevels
    /\ \E fetched \in BOOLEAN :
        /\ current_tp_orders' = get_tp_orders_from_exchange(fetched, AllOrders(venue))
        /\ cycle_report' = current_tp_orders'
    /\ cycle_profits' = cycle_profits \cup {executed_orders[fill_index].order_id}
    /\ fill_index' = fill_index + 1
    /\ UNCHANGED <<fixedVars, cacheVars, envVars, executed_orders, pc, iteration_count,
                   orphaned_logged, current_price, position_size, min_tp_price,
                   max_tp_price, tp_orders, cycle_fills, cycle_checked, decided_orders, cycle_buys,
                   cycle_tps, runHistory>>

\* averaging_strategy.py 891-902, 953-954: the profit calculation or a balance read
\* raises while an executed order is processed, before the open orders are read again;
\* the except branch logs and the loop goes on
EngineFillRaises ==
    /\ pc = "fills"
    /\ fill_index <= Len(executed_orders)
    /\ fill_index' = fill_index + 1
    /\ usdc_balance' \in UsdcLevels
    /\ UNCHANGED <<fixedVars, cacheVars, envVars, executed_orders, pc, iteration_count,
                   orphaned_logged, current_tp_orders, current_price,
                   token_balance, position_size, min_tp_price, max_tp_price, tp_orders,
                   cycleHistory, runHistory>>

\* averaging_strategy.py 956-993: min and max TP price, position size, orphaned tokens
EngineDecide ==
    /\ pc = "fills"
    /\ fill_index > Len(executed_orders)
    /\ min_tp_price' = MinTpPrice(current_tp_orders)
    /\ max_tp_price' = MaxTpPrice(current_tp_orders)
    /\ decided_orders' = current_tp_orders
    /\ position_size' \in PositionSizes
    /\ IF OrphanLogDue(token_balance, current_tp_orders, orphaned_logged)
       THEN /\ orphaned_logged' = TRUE
            /\ orphan_logs' = orphan_logs + 1
            /\ run_orphan_logs' = run_orphan_logs + 1
       ELSE UNCHANGED <<orphaned_logged, orphan_logs, run_orphan_logs>>
    /\ pc' = "first"
    /\ UNCHANGED <<fixedVars, cacheVars, envVars, executed_orders, iteration_count,
                   current_tp_orders, current_price, usdc_balance, token_balance,
                   fill_index, tp_orders, cycle_report, cycle_fills, cycle_checked, cycle_profits,
                   cycle_buys, cycle_tps, runs, cycles, run_cycles>>

\* averaging_strategy.py 966, 1382: calculate_position_size raises
EngineDecideRaises ==
    /\ pc = "fills"
    /\ fill_index > Len(executed_orders)
    /\ CycleLeft("error")
    /\ UNCHANGED <<leftFrame, iteration_count, orphaned_logged, runHistory>>

\* The orders the venue has no record for
FreeIds(v) == {i \in OrderIds : v[i].status = "none"}

\* averaging_strategy.py 202-209: the ledger entry create_tp_order appends
LedgerEntry(id, amount, tp_price, entry_price) ==
    [order_id |-> id, amount |-> amount, tp_price |-> tp_price,
     entry_price |-> entry_price]

\* Outcomes of place_limit_order: it raises, returns nothing, returns a result without
\* order_id, or returns the order_id of the order that now rests on the venue.
PlaceResults == {"raises", "null", "no_id", "ok"}

\* the order rests on the venue after the call
Placed(result) == result = "ok"

\* averaging_strategy.py 200: limit_order and limit_order.get('order_id')
LedgerAppendDueMutAlways(result) == TRUE
LedgerAppendDue(result) == result = "ok"

\* averaging_strategy.py 173-234: create_tp_order as the three branches call it. The
\* order_id of the result is 0 when the result carries none.
create_tp_order(kind, token_amount, tp_price, entry_price, result) ==
    LET id == IF Placed(result) THEN MinOf(FreeIds(venue)) ELSE 0
        order_id == IF result = "ok" THEN id ELSE 0
    IN  /\ venue' = IF Placed(result)
                    THEN [venue EXCEPT ![id] = [OpenOrder(token_amount, tp_price)
                                                  EXCEPT !.confirmed = (result = "ok")]]
                    ELSE venue
        /\ tp_orders' = IF LedgerAppendDue(result)
                        THEN Append(tp_orders,
                                    LedgerEntry(order_id, token_amount, tp_price, entry_price))
                        ELSE tp_orders
        /\ cycle_tps' = Append(cycle_tps, [kind |-> kind, acked |-> result = "ok",
                                           returned |-> LedgerAppendDue(result),
                                           amount |-> token_amount,
                                           limit_price |-> tp_price])

\* Outcomes of place_market_order: it raises, returns nothing, or returns the fill.
BuyResults == {"raises", "null", "filled"}

\* averaging_strategy.py 1030, 1150, 1270: if buy_result
BuyFilledMutAlways(buy_result) == TRUE
BuyFilled(buy_result) == buy_result = "filled"

\* averaging_strategy.py 1022-1116, 1142-1236, 1262-1356: the market buy of one branch
\* and what follows it. Every exception is caught by the branch (1115, 1235, 1355), so
\* the cycle goes on with the next branch whatever happens here. token_balance is
\* assigned at 1043 and 1072 and next read after 840 assigns it again: its value is not
\* kept.
BuyOf(kind, next, fills) ==
    /\ pc' = next
    /\ \E buy_result \in BuyResults, fill \in fills :
        /\ buy_result # "filled" => fill = NoFill
        /\ buy_result = "filled" => fill # NoFill
        /\ cycle_buys' = Append(cycle_buys, [kind |-> kind,
                                             filled |-> buy_result = "filled",
                                             trading |-> trading_enabled,
                                             usdc |-> usdc_balance,
                                             size |-> position_size,
                                             price |-> fill.price,
                                             to_amount |-> fill.to_amount])
        /\ IF buy_result = "raises" \/ ~BuyFilled(buy_result)
           THEN UNCHANGED <<venue, tp_orders, current_tp_orders, usdc_balance,
                            token_balance, cycle_tps, cycle_report>>
           ELSE /\ usdc_balance' \in UsdcLevels
                /\ token_balance' = 0
                /\ \/ \* a balance read before the TP order (1042, 1043) raises
                      UNCHANGED <<venue, tp_orders, current_tp_orders, cycle_tps,
                                  cycle_report>>
                   \/ \* create_tp_order is called
                      \E result \in PlaceResults :
                          /\ Placed(result) => FreeIds(venue) # {}
                          /\ create_tp_order(kind, TpAmountFor(fill.to_amount),
                                             TpPriceFor(fill.price), fill.price, result)
                          /\ \/ \* a balance read after the TP order (1071, 1072) raises
                                UNCHANGED <<current_tp_orders, cycle_report>>
                             \/ \* open orders are read again
                                \E fetched \in BOOLEAN :
                                    /\ current_tp_orders' =
                                        get_tp_orders_from_exchange(fetched,
                                                                    AllOrders(venue'))
                                    /\ cycle_report' = current_tp_orders'

branchFrame == <<fixedVars, cacheVars, shutdown_requested, executed_orders,
                 iteration_count, orphaned_logged, current_price, position_size,
                 min_tp_price, max_tp_price, fill_index, cycle_fills, cycle_checked, cycle_profits,
                 decided_orders, runHistory>>

skipFrame == <<branchFrame, venue, tp_orders, current_tp_orders, usdc_balance,
               token_balance, cycle_buys, cycle_tps, cycle_report>>

\* averaging_strategy.py 1000-1002, 1013-1020: the branch cannot buy and ends the cycle
\* with `continue`
CannotBuyMutBalanceOnly == usdc_balance < position_size
CannotBuy == ~trading_enabled \/ usdc_balance < position_size

\* averaging_strategy.py 997: TP orders are open, no first position
EngineFirstSkips ==
    /\ pc = "first"
    /\ ~FirstPositionDue(current_tp_orders)
    /\ pc' = "avg"
    /\ UNCHANGED skipFrame

\* averaging_strategy.py 997-1020: first position due, `continue`
EngineFirstContinues ==
    /\ pc = "first"
    /\ FirstPositionDue(current_tp_orders)
    /\ CannotBuy
    /\ CycleLeft("top")
    /\ UNCHANGED <<leftFrame, iteration_count, orphaned_logged, runHistory>>

\* averaging_strategy.py 997-1116: first position
EngineFirstBuysOf(fills) ==
    /\ pc = "first"
    /\ FirstPositionDue(current_tp_orders)
    /\ ~CannotBuy
    /\ BuyOf("first", "avg", fills)
    /\ UNCHANGED branchFrame

EngineFirstBuys == EngineFirstBuysOf(Fills)
EngineFirstBuysWide == EngineFirstBuysOf(WideFills)

\* averaging_strategy.py 1119: no averaging
EngineAvgSkips ==
    /\ pc = "avg"
    /\ ~AveragingDue(min_tp_price, current_price, STEP)
    /\ pc' = "pyr"
    /\ UNCHANGED skipFrame

\* averaging_strategy.py 1119-1140: averaging due, `continue`
EngineAvgContinues ==
    /\ pc = "avg"
    /\ AveragingDue(min_tp_price, current_price, STEP)
    /\ CannotBuy
    /\ CycleLeft("top")
    /\ UNCHANGED <<leftFrame, iteration_count, orphaned_logged, runHistory>>

\* averaging_strategy.py 1119-1236: averaging
EngineAvgBuysOf(fills) ==
    /\ pc = "avg"
    /\ AveragingDue(min_tp_price, current_price, STEP)
    /\ ~CannotBuy
    /\ BuyOf("averaging", "pyr", fills)
    /\ UNCHANGED branchFrame

EngineAvgBuys == EngineAvgBuysOf(Fills)
EngineAvgBuysWide == EngineAvgBuysOf(WideFills)

\* averaging_strategy.py 1239: no pyramiding
EnginePyrSkips ==
    /\ pc = "pyr"
    /\ ~PyramidingDue(max_tp_price, current_price, STEP * aggr)
    /\ pc' = "end"
    /\ UNCHANGED skipFrame

\* averaging_strategy.py 1239-1260: pyramiding due, `continue`
EnginePyrContinues ==
    /\ pc = "pyr"
    /\ PyramidingDue(max_tp_price, current_price, STEP * aggr)
    /\ CannotBuy
    /\ CycleLeft("top")
    /\ UNCHANGED <<leftFrame, iteration_count, orphaned_logged, runHistory>>

\* averaging_strategy.py 1239-1356: pyramiding
EnginePyrBuysOf(fills) ==
    /\ pc = "pyr"
    /\ PyramidingDue(max_tp_price, current_price, STEP * aggr)
    /\ ~CannotBuy
    /\ BuyOf("pyramiding", "end", fills)
    /\ UNCHANGED branchFrame

EnginePyrBuys == EnginePyrBuysOf(Fills)
EnginePyrBuysWide == EnginePyrBuysOf(WideFills)

EngineEndMutNoCount ==
    /\ pc = "end"
    /\ CycleLeft("top")
    /\ UNCHANGED <<leftFrame, iteration_count, orphaned_logged, runHistory>>

\* averaging_strategy.py 1358-1380: the cycle ends
EngineEnd ==
    /\ pc = "end"
    /\ iteration_count' = iteration_count + 1
    /\ CycleLeft("top")
    /\ UNCHANGED <<leftFrame, orphaned_logged, runHistory>>

EngineErrorMutEnds ==
    /\ pc = "error"
    /\ CycleLeft("failed")
    /\ UNCHANGED <<leftFrame, iteration_count, orphaned_logged, runHistory>>

\* averaging_strategy.py 1382-1386: the cycle's exception is logged, the loop goes on
EngineError ==
    /\ pc = "error"
    /\ CycleLeft("top")
    /\ UNCHANGED <<leftFrame, iteration_count, orphaned_logged, runHistory>>

\* averaging_strategy.py 1382-1388: a call of the cycle's handler raises (log_message,
\* logger.error, async_sleep); the exception leaves the loop for the handler at 1388
EngineHandlerRaises ==
    /\ pc = "error"
    /\ CycleLeft("critical")
    /\ UNCHANGED <<leftFrame, iteration_count, orphaned_logged, runHistory>>

\* averaging_strategy.py 1388-1402, 786-812: the outer handler logs, warns, waits and
\* calls the engine again with the same client: its locals start afresh, the fill
\* cache on the client stays
EngineRestart ==
    /\ pc = "critical"
    /\ runs < MaxRuns
    /\ runs' = runs + 1
    /\ run_cycles' = 0
    /\ run_orphan_logs' = 0
    /\ iteration_count' = 0
    /\ orphaned_logged' = FALSE
    /\ CycleLeft("top")
    /\ UNCHANGED <<leftFrame, cycles, orphan_logs>>

\* averaging_strategy.py 1388-1402: a call of the outer handler raises in turn
\* (log_message at 1389, send_warning_notification at 1392, client.label at 1395), or
\* the engine started at 1402 inside the handler ends with an exception: nothing
\* catches it, the exception leaves trade_averaging_strategy for its caller.
EngineCrash ==
    /\ pc = "critical"
    /\ CycleLeft("failed")
    /\ UNCHANGED <<leftFrame, iteration_count, orphaned_logged, runHistory>>

envFrame == <<fixedVars, cacheVars, executed_orders, iteration_count, orphaned_logged,
              current_tp_orders, current_price, usdc_balance, token_balance,
              position_size, min_tp_price, max_tp_price, fill_index, tp_orders,
              cycleHistory, runHistory>>

\* The next step of the engine may read the venue's orders.
VenueRead ==
    \/ pc = "fetch"
    \/ pc = "check" /\ ChecksFills(iteration_count)
    \/ pc = "fills" /\ fill_index <= Len(executed_orders)
    \/ pc = "first" /\ FirstPositionDue(current_tp_orders) /\ ~CannotBuy
    \/ pc = "avg" /\ AveragingDue(min_tp_price, current_price, STEP) /\ ~CannotBuy
    \/ pc = "pyr" /\ PyramidingDue(max_tp_price, current_price, STEP * aggr) /\ ~CannotBuy

\* The venue executes a resting order. The engine sees the venue only through its reads,
\* so an execution is followed at the points where a read may come next; one at another
\* moment is seen by the engine as one at the next of these points.
VenueFill ==
    /\ VenueRead
    /\ \E id \in OrderIds :
        /\ venue[id].status = "open"
        /\ venue' = [venue EXCEPT ![id].status = "filled"]
    /\ UNCHANGED <<envFrame, shutdown_requested, pc>>

NextEngine ==
    \/ EngineTop
    \/ EngineFetch
    \/ EngineFetchRaises
    \/ EngineCheck
    \/ EngineFillProcessed
    \/ EngineFillRaises
    \/ EngineDecide
    \/ EngineDecideRaises
    \/ EngineFirstSkips
    \/ EngineFirstContinues
    \/ EngineFirstBuys
    \/ EngineAvgSkips
    \/ EngineAvgContinues
    \/ EngineAvgBuys
    \/ EnginePyrSkips
    \/ EnginePyrContinues
    \/ EnginePyrBuys
    \/ EngineEnd
    \/ EngineError
    \/ EngineHandlerRaises
    \/ EngineRestart
    \/ EngineCrash
    \/ VenueFill

SpecEngine == InitEngine /\ [][NextEngine]_vars

(***************************************************************************)
(* The engine of one account under shutdown signals                        *)
(***************************************************************************)

\* main.py 35: a signal that finds the flag set exits the process
ExitForcedMutAlways(flag) == TRUE
ExitForced(flag) == flag

\* main.py 19-41, 152-153: SIGINT or SIGTERM is delivered while the engine runs. The
\* handler belongs to the script, the module __main__, and assigns the flag of that
\* module; exit(1) ends the process, whatever the engine is doing.
signal_handler ==
    /\ pc \notin {"idle", "exited"}
    /\ signals' = signals + 1
    /\ IF ExitForced(shutdown_requested)
       THEN /\ CycleLeft("exited")
            /\ UNCHANGED shutdown_requested
       ELSE /\ shutdown_requested' = TRUE
            /\ UNCHANGED <<pc, executed_orders, current_price, usdc_balance, token_balance,
                           position_size, min_tp_price, max_tp_price, fill_index,
                           cycleHistory>>
    /\ UNCHANGED <<gateVars, sessionVars, startupVars, reconcileVars, clock, polls, first_snapshot,
                   trading_enabled, aggr, cacheVars, venue, iteration_count, orphaned_logged, current_tp_orders, tp_orders,
                   runHistory>>

\* One account with a resting TP order of one token, trading enabled.
InitShutdown ==
    /\ InitEngine
    /\ venue = [i \in OrderIds |-> IF i = 1 THEN OpenOrder(1, EntryPrice + STEP) ELSE NoOrder]
    /\ trading_enabled
    /\ aggr = 3

NextShutdown ==
    \/ EngineTop
    \/ EngineFetch
    \/ EngineFetchRaises
    \/ EngineCheck
    \/ EngineFillProcessed
    \/ EngineFillRaises
    \/ EngineDecide
    \/ EngineDecideRaises
    \/ EngineFirstSkips
    \/ EngineFirstContinues
    \/ EngineFirstBuys
    \/ EngineAvgSkips
    \/ EngineAvgContinues
    \/ EngineAvgBuys
    \/ EnginePyrSkips
    \/ EnginePyrContinues
    \/ EnginePyrBuys
    \/ EngineEnd
    \/ EngineError
    \/ EngineHandlerRaises
    \/ EngineRestart
    \/ VenueFill
    \/ signal_handler

SpecShutdown == InitShutdown /\ [][NextShutdown]_vars

\* One account without orders, trading enabled, AGGR = 2.
InitBuy ==
    /\ InitEngine
    /\ venue = [i \in OrderIds |-> NoOrder]
    /\ trading_enabled
    /\ aggr = 2

NextBuy ==
    \/ EngineTop
    \/ EngineFetch
    \/ EngineFetchRaises
    \/ EngineCheck
    \/ EngineFillProcessed
    \/ EngineFillRaises
    \/ EngineDecide
    \/ EngineDecideRaises
    \/ EngineFirstSkips
    \/ EngineFirstContinues
    \/ EngineFirstBuysWide
    \/ EngineAvgSkips
    \/ EngineAvgContinues
    \/ EngineAvgBuysWide
    \/ EnginePyrSkips
    \/ EnginePyrContinues
    \/ EnginePyrBuysWide
    \/ EngineEnd
    \/ EngineError
    \/ EngineHandlerRaises
    \/ EngineRestart
    \/ VenueFill

SpecBuy == InitBuy /\ [][NextBuy]_vars

(***************************************************************************)
(* The engine of one account on a venue whose executions may pay more than *)
(* the limit price                                                         *)
(***************************************************************************)

\* USDC per token an execution may pay above the limit price
MaxSurplus == 1

\* The venue executes a resting order above its limit price: filled_output_amount
\* (averaging_strategy.py 533) exceeds expected_output_amount (353).
VenueFillAbove ==
    /\ VenueRead
    /\ \E id \in OrderIds, extra \in 1..MaxSurplus :
        /\ venue[id].status = "open"
        /\ venue' = [venue EXCEPT ![id].status = "filled", ![id].surplus = extra]
    /\ UNCHANGED <<envFrame, shutdown_requested, pc>>

NextProfit ==
    \/ EngineTop
    \/ EngineFetch
    \/ EngineFetchRaises
    \/ EngineCheck
    \/ EngineFillProcessed
    \/ EngineFillRaises
    \/ EngineDecide
    \/ EngineDecideRaises
    \/ EngineFirstSkips
    \/ EngineFirstContinues
    \/ EngineFirstBuys
    \/ EngineAvgSkips
    \/ EngineAvgContinues
    \/ EngineAvgBuys
    \/ EnginePyrSkips
    \/ EnginePyrContinues
    \/ EnginePyrBuys
    \/ EngineEnd
    \/ EngineError
    \/ EngineHandlerRaises
    \/ EngineRestart
    \/ VenueFill
    \/ VenueFillAbove

SpecProfit == InitBuy /\ [][NextProfit]_vars


\* C11: once the handler has recorded a shutdown request, the engine starts no further
\* cycle: at the top of its loop it sees the request and returns.
C11_NoCycleAfterRequest ==
    [][shutdown_requested => ~(pc = "top" /\ pc' = "fetch")]_vars

\* C12: the first signal only sets the flag and leaves the process running; a second
\* signal ends the process while the engine is anywhere in its loop.
C12_SecondSignalExits ==
    /\ signals = 0 => ~shutdown_requested /\ pc # "exited"
    /\ signals = 1 => shutdown_requested /\ pc # "exited"
    /\ signals >= 2 => pc = "exited"

\* the second signal arrived while a cycle was waiting to read the venue
C12_Witness ==
    /\ signals = 2
    /\ pc = "exited"
    /\ shutdown_requested
    /\ cycles >= 1

(***************************************************************************)
(* Properties of the cycle                                                 *)
(***************************************************************************)

Kinds(buys) == {buys[i].kind : i \in 1..Len(buys)}

\* the step appends a market buy of this kind to the cycle's record
Attempted(kind) ==
    /\ Len(cycle_buys') = Len(cycle_buys) + 1
    /\ cycle_buys'[Len(cycle_buys')].kind = kind

\* C4: when min_tp_price and max_tp_price have been derived, the open-TP set they come
\* from is the set the venue reported in this cycle without the orders detected as
\* filled in this cycle, and it holds no order whose fill was detected in this cycle.
C4_DecisionSetIsReportMinusFills ==
    pc = "first" =>
        /\ min_tp_price = MinTpPrice(decided_orders)
        /\ max_tp_price = MaxTpPrice(decided_orders)
        /\ Ids(decided_orders) \cap cycle_fills = {}
        /\ Ids(decided_orders) = Ids(cycle_report) \ cycle_fills

\* C5: in the first cycle of an engine run no fill is treated as new and no profit
\* event is emitted, whatever filled orders the venue returns.
C5_FirstCycleSilent ==
    run_cycles = 1 => executed_orders = <<>> /\ cycle_fills = {} /\ cycle_profits = {}

\* the first cycle of a restarted run has passed the fill check with a warm cache while
\* the venue returns a filled order the cache does not hold
C5_Witness ==
    /\ runs = 2 /\ run_cycles = 1 /\ pc = "fills"
    /\ orders_cache_initialized
    /\ \E id \in OrderIds :
        venue[id].status = "filled" /\ id \notin previous_filled_order_ids

\* C6: with trading enabled and usdc_balance >= position_size, the averaging branch
\* attempts its market buy exactly when an open TP order exists and current_price is
\* strictly below the lowest open TP price minus 2 * STEP; with the lowest TP at
\* 1050 and STEP 50 it buys at 949 and not at 950 or 951.
C6_AveragingIffBelowTrigger ==
    [][(pc = "avg" /\ pc' # "avg" /\ trading_enabled /\ usdc_balance >= position_size) =>
        /\ Attempted("averaging") <=>
               /\ decided_orders # <<>>
               /\ current_price < MinOf(TpPrices(decided_orders)) - 2 * STEP
        /\ (decided_orders # <<>> /\ MinOf(TpPrices(decided_orders)) = 1050) =>
               /\ current_price = 949 => Attempted("averaging")
               /\ current_price \in {950, 951} => ~Attempted("averaging")]_vars

\* the averaging branch has bought at 949 under a lowest TP of 1050
C6_Witness ==
    /\ pc = "pyr"
    /\ cycle_buys # <<>> /\ cycle_buys[Len(cycle_buys)].kind = "averaging"
    /\ min_tp_price = <<EntryPrice + STEP>>
    /\ current_price = EntryPrice - STEP - 1

C8_FirstExcludesOthers ==
    ~ /\ "first" \in Kinds(cycle_buys)
      /\ Kinds(cycle_buys) \cap {"averaging", "pyramiding"} # {}

\* a cycle ends after a filled first-position buy whose TP order rests on the venue at a
\* price that would trigger pyramiding, and the first-position buy is its only buy
C8_Witness ==
    /\ pc = "end"
    /\ Len(cycle_buys) = 1
    /\ cycle_buys[1].kind = "first" /\ cycle_buys[1].filled
    /\ current_tp_orders # <<>>
    /\ trading_enabled /\ usdc_balance >= position_size
    /\ PyramidingDue(MaxTpPrice(current_tp_orders), current_price, STEP * aggr)

Confirmed == {id \in OrderIds : venue[id].confirmed}

\* the kinds of the cycle's market buys that returned a fill
FilledKinds == {cycle_buys[i].kind : i \in {j \in 1..Len(cycle_buys) : cycle_buys[j].filled}}

\* C13: every ledger entry carries the identifier place_limit_order returned for an
\* order resting on the venue; create_tp_order returns an entry only then, and the
\* ledger holds one entry per confirmed placement and nothing else.
C13_LedgerOnlyConfirmed ==
    /\ \A i \in 1..Len(tp_orders) :
        tp_orders[i].order_id \in OrderIds /\ venue[tp_orders[i].order_id].confirmed
    /\ \A j \in 1..Len(cycle_tps) : cycle_tps[j].returned <=> cycle_tps[j].acked
    /\ Len(tp_orders) = Cardinality(Confirmed)

\* a cycle with two filled buys: one placement was confirmed and entered the ledger, the
\* other gave no identifier and left it as it was
C13_Witness ==
    /\ Len(cycle_tps) = 2
    /\ \E j, k \in 1..2 : cycle_tps[j].acked /\ ~cycle_tps[k].acked
    /\ Len(tp_orders) = 1

\* C14: every limit order requested in a cycle belongs to a market buy of the same
\* cycle that returned a fill, and no buy has more than one; a buy that returned nothing
\* has none.
C14_TpOnlyAfterFilledBuy ==
    /\ \A j \in 1..Len(cycle_tps) : cycle_tps[j].kind \in FilledKinds
    /\ \A j, k \in 1..Len(cycle_tps) : j # k => cycle_tps[j].kind # cycle_tps[k].kind
    /\ \A i, k \in 1..Len(cycle_buys) : i # k => cycle_buys[i].kind # cycle_buys[k].kind

\* a cycle of a run that logged orphaned tokens ends with a buy that returned nothing
\* and has no limit order, and a filled buy with its one limit order
C14_Witness ==
    /\ pc = "end"
    /\ run_orphan_logs = 1
    /\ Len(cycle_buys) = 2
    /\ ~cycle_buys[1].filled /\ cycle_buys[2].filled
    /\ Len(cycle_tps) = 1
    /\ cycle_tps[1].kind = cycle_buys[2].kind

\* C19: with trading disabled the reconciler has run by the time a cycle after the
\* first of the session's first run has passed the fill check, so that new fills can
\* be detected at all.
C19_MonitoringReconciles ==
    (~trading_enabled /\ runs = 1 /\ run_cycles >= 2 /\ pc = "fills") => has_cache

\* C20: every market buy was issued with trading enabled and a USDC balance, as last
\* read, of at least position_size; with trading disabled no market order and no limit
\* order is placed.
C20_BuyOnlyWhenAble ==
    /\ \A i \in 1..Len(cycle_buys) :
        cycle_buys[i].trading /\ cycle_buys[i].usdc >= cycle_buys[i].size
    /\ ~trading_enabled =>
        cycle_buys = <<>> /\ cycle_tps = <<>> /\ tp_orders = <<>> /\ Confirmed = {}

\* the averaging branch has bought, the balance read afterwards is below position_size
\* and pyramiding is due
C20_Witness ==
    /\ pc = "pyr"
    /\ cycle_buys # <<>>
    /\ usdc_balance < position_size
    /\ PyramidingDue(max_tp_price, current_price, STEP * aggr)

\* C22: every limit sell requested after a buy asks the fill price the buy reported plus
\* STEP, for the token amount the buy reported; with STEP = 50 an entry at 1000 gives a
\* TP at 1050.
C22_TpAtFillPlusStep ==
    /\ STEP = 50
    /\ \A j \in 1..Len(cycle_tps) :
        \E i \in 1..Len(cycle_buys) :
            /\ cycle_buys[i].kind = cycle_tps[j].kind
            /\ cycle_buys[i].filled
            /\ cycle_tps[j].limit_price = cycle_buys[i].price + STEP
            /\ cycle_tps[j].amount = cycle_buys[i].to_amount
            /\ cycle_buys[i].price = 1000 => cycle_tps[j].limit_price = 1050
    /\ \A k \in 1..Len(tp_orders) :
        /\ tp_orders[k].tp_price = tp_orders[k].entry_price + STEP
        /\ venue[tp_orders[k].order_id].price = tp_orders[k].tp_price
        /\ venue[tp_orders[k].order_id].amount = tp_orders[k].amount

\* a pyramiding buy of two tokens filled at 1000 whose TP rests at 1050, after an
\* earlier buy of one token filled at 950
C22_Witness ==
    /\ Len(cycle_buys) = 1 /\ Len(cycle_tps) = 1
    /\ cycle_buys[1].kind = "pyramiding" /\ cycle_buys[1].price = 1000
    /\ cycle_buys[1].to_amount = 2
    /\ cycle_tps[1].limit_price = 1050 /\ cycle_tps[1].amount = 2 /\ cycle_tps[1].acked
    /\ \E k \in 1..Len(tp_orders) :
        tp_orders[k].entry_price = 950 /\ tp_orders[k].amount = 1

\* C24: past the first-position branch of a cycle, a first-position buy has been
\* attempted exactly when the open orders the cycle decided on were none; the token
\* balance plays no part (the branch is left with `continue`, not passed, when trading
\* is disabled or the USDC balance is short).
C24_FirstBuyIffNoOpenTp ==
    /\ pc \in {"avg", "pyr", "end"} =>
           ("first" \in Kinds(cycle_buys) <=> decided_orders = <<>>)
    /\ \A i \in 1..Len(cycle_buys) :
           cycle_buys[i].kind = "first" =>
               /\ decided_orders = <<>>
               /\ cycle_buys[i].trading
               /\ cycle_buys[i].usdc >= cycle_buys[i].size

\* the first cycle of a run found tokens in the wallet and no open order, logged them as
\* orphaned and bought a first position all the same
C24_Witness ==
    /\ pc = "avg"
    /\ run_cycles = 1 /\ run_orphan_logs = 1
    /\ decided_orders = <<>>
    /\ Len(cycle_buys) = 1 /\ cycle_buys[1].kind = "first" /\ cycle_buys[1].filled

FilledBuys == {i \in 1..Len(cycle_buys) : cycle_buys[i].filled}

\* C26: a cycle executes at most one market buy, whichever of first position, averaging
\* and pyramiding it is, for every price, open-order set and value of AGGR.
C26_AtMostOneBuyPerCycle == Cardinality(FilledBuys) <= 1

\* C27: every executed market buy of a cycle has, once its branch is done, one limit sell
\* requested for it in the same cycle, whatever the balance reads and statistics writes
\* between the buy and the request did.
C27_FilledBuyGetsTp ==
    \A i \in FilledBuys :
        Cardinality({j \in 1..Len(cycle_tps) :
                        /\ cycle_tps[j].kind = cycle_buys[i].kind
                        /\ cycle_tps[j].amount = cycle_buys[i].to_amount}) = 1

\* the open orders that sell a token amount above zero
Priced(orders) == SelectSeq(orders, LAMBDA o : o.amount > 0)

\* C33: an open order whose token amount is zero gets the price 0 and is left out of
\* the pricing decisions: min_tp_price and max_tp_price are those of the other open
\* orders, so averaging and pyramiding fire exactly as they would without it.
C33_ZeroAmountOrderIgnored ==
    /\ \A i \in 1..Len(current_tp_orders) :
           current_tp_orders[i].amount = 0 => current_tp_orders[i].tp_price = 0
    /\ pc \in {"first", "avg", "pyr", "end"} =>
           /\ min_tp_price = MinTpPrice(Priced(decided_orders))
           /\ max_tp_price = MaxTpPrice(Priced(decided_orders))
\* averaging_strategy.py 886-896: the entry price calculate_real_profit is given for
\* the executed order the loop is at
ProfitEntryPrice(executed_order) == executed_order.entry_price

\* the ledger entries of client.tp_orders that carry the identifier
LedgerMatches(id) == {i \in 1..Len(tp_orders) : tp_orders[i].order_id = id}

\* C34: when a fill is processed, the entry price used for the realized profit is the
\* entry_price of the matching ledger entry (the buy's actual fill price) whenever the
\* ledger holds an entry for the filled order, and fill price - STEP only otherwise.
C34_EntryPriceFromLedger ==
    (pc = "fills" /\ fill_index <= Len(executed_orders)) =>
        LET executed_order == executed_orders[fill_index]
        IN  IF LedgerMatches(executed_order.order_id) # {}
            THEN \E i \in LedgerMatches(executed_order.order_id) :
                     ProfitEntryPrice(executed_order) = tp_orders[i].entry_price
            ELSE ProfitEntryPrice(executed_order) = executed_order.tp_price - STEP
\* positions of the engine inside the try block of one cycle (828-1380)
CyclePositions == {"fetch", "check", "fills", "first", "avg", "pyr", "end"}

\* C35: an exception raised inside a cycle is caught by the cycle: no step made from
\* inside a cycle ends the engine or reaches the account session, and once the
\* handler of the cycle has logged and waited (it does not raise itself), the engine
\* is at the head of the loop of the same run, where the shutdown flag is read before
\* the further cycle.
C35_CycleExceptionCaught ==
    [][/\ pc \in CyclePositions => pc' \in CyclePositions \cup {"top", "error"}
       /\ (pc = "error" /\ pc' # "critical") =>
              (pc' = "top" /\ runs' = runs /\ iteration_count' = iteration_count)
       /\ (pc = "top" /\ pc' # "top") => (~imported_shutdown_requested /\ pc' = "fetch")]_vars

\* C35 happens: the second cycle of a run has raised and its handler is running, and
\* a further cycle can follow.
C35_Witness ==
    /\ pc = "error" /\ runs = 1 /\ run_cycles = 2 /\ iteration_count = 1
    /\ cycles < MaxCycles

\* C36: an exception that escapes the cycle loop makes the engine restart itself with
\* the same client: the engine never ends with a failure handed to the account
\* session, and the processed-fill cache of the client is the same after the restart.
C36_EscapeRestartsEngine ==
    [][/\ pc' # "failed"
       /\ runs' # runs =>
              /\ pc' = "top" /\ runs' = runs + 1
              /\ previous_filled_order_ids' = previous_filled_order_ids
              /\ orders_cache_initialized' = orders_cache_initialized
              /\ has_cache' = has_cache]_vars
\* C37: once the reconciler has reported TP order X as filled and the engine has
\* processed that fill (its profit message is sent), the ledger client.tp_orders
\* holds no entry for X.
C37_FilledOrderLeavesLedger ==
    \A id \in cycle_profits : LedgerMatches(id) = {}
====
